---------------------------- MODULE Spec2Model ----------------------------
(***************************************************************************)
(* Starknet faucet: the dispatch pipeline of internal/api/handlers.go over *)
(* the Redis operations of internal/cache/redis.go and the chain client.   *)
(*                                                                         *)
(* Every HTTP request is a flow of its own (one goroutine per request).    *)
(* A step of the model is one Redis command or one chain call of one flow, *)
(* together with the local computation that follows it up to the next      *)
(* command; flows interleave between commands.                             *)
(*                                                                         *)
(* Time is counted in ticks of 20 minutes (time.Hour = 3 ticks).  A key    *)
(* written with a TTL d at time t is readable while now < t + d.           *)
(* Amounts are whole tokens (DRIP_AMOUNT_STRK = "10", DRIP_AMOUNT_ETH =    *)
(* "1"), which the float64 arithmetic of the handlers holds exactly.       *)
(***************************************************************************)
EXTENDS Integers, Sequences, FiniteSets, TLC

(* ------------------------------ bounds -------------------------------- *)

\* requests that are served at the same time in a run of Spec
NumFlows == 2

\* challenge identifiers that GenerateChallenge can draw in one run
MaxChallenges == 3

\* ticks that pass in a run of SpecSeq
MaxTime == 1

\* dispatch requests (calls of RequestTokens or handleBothTokensRequest) in
\* one run
MaxRequests == 3

\* dispatch requests in one run of SpecFail and of SpecCaps
MaxFailRequests == 2

\* SpecCaps runs for one hour
MaxCapsTime == 3

\* SpecBoth runs for one hour
MaxBothTime == 3

\* ticks that pass in a run of SpecWindow
MaxWindowTime == 4

\* ticks that pass in a run of SpecCooldown: a day
MaxCooldownTime == 72

\* the tick at which the first midnight UTC of a run falls
Midnight == 1

\* the largest difficulty a generator is configured with
MaxDifficulty == 2

\* the number of loop turns a run of SolveChallenge is followed for
AttemptLimit == 2500

(* ------------------------- program constants -------------------------- *)

\* time.Hour, the TTL of a throttle marker and of the hourly windows
Hour == 3

\* 24*time.Hour, the TTL of the cooldown, of the daily counter and window
Day == 72

\* the nonce above which SolveChallenge gives up, pow.go 110
MaxNonce == 100000000

(* ------------------------------ domains -------------------------------- *)

IPs == {"ip1", "ip2"}

\* strings are sequences of characters, so that the validators and
\* strings.ToUpper can be computed as the code computes them
STRK == <<"S", "T", "R", "K">>

ETH == <<"E", "T", "H">>

BOTH == <<"B", "O", "T", "H">>

Tokens == {STRK, ETH}

\* the loop order of handleBothTokensRequest: tokens := []string{"STRK", "ETH"}
BothTokens == <<STRK, ETH>>

\* token strings a client may send
GoodTokenInputs == {STRK, <<"e", "t", "h">>}

BadTokenInputs == {BOTH, <<"B", "T", "C">>}

\* addresses a client may send
GoodAddress == <<"0", "x", "1", "a">>

BadAddress == <<"1", "a">>

\* a request body that c.BodyParser cannot parse
NoBody ==
    [parsed |-> FALSE, address |-> <<>>, token |-> <<>>, challenge_id |-> 0,
     nonce |-> 0]

Nonces == {0, 1}

Flows == 1 .. NumFlows

ChallengeIds == 1 .. MaxChallenges

\* a key that does not exist
Absent == [val |-> 0, exp |-> 0]

\* a challenge key that does not exist: GET returns no payload
NoChallenge == [val |-> <<>>, exp |-> 0]

\* the expiry of a key that was created without a TTL
Persist == 0 - 1

(* --------------------------- configuration ---------------------------- *)

\* config.Load: the settings are read from the environment.  The values
\* below are one admissible environment with small numbers.  The global
\* distribution caps are enabled for STRK (one drip per hour, two per day)
\* and disabled for ETH (0, the default), so that both paths of
\* TrackGlobalDistribution are taken.
BaseConfig ==
    [ MaxRequestsPerDayIP  |-> 2,
      MaxChallengesPerHour |-> 2,
      PoWDifficulty        |-> 1,
      ChallengeTTL         |-> 1,
      DripAmount           |-> [t \in Tokens |-> IF t = STRK THEN 10 ELSE 1],
      MaxTokensPerHour     |-> [t \in Tokens |-> IF t = STRK THEN 10 ELSE 0],
      MaxTokensPerDay      |-> [t \in Tokens |-> IF t = STRK THEN 20 ELSE 0],
      MinBalanceProtectPct |-> 5 ]

\* the faucet account's balances when the server starts
InitBalance == [t \in Tokens |-> IF t = STRK THEN 30 ELSE 3]

(* ------------------------------- state -------------------------------- *)

VARIABLES
    now,        \* wall clock, in ticks
    cfg,        \* the loaded configuration
    storeFails, \* whether Redis commands may return an error in this run
    chainFree,  \* whether, in this run, the chain may revert a transfer
                \* whose amount the account holds
    cooldown,   \* cooldown:ip:<ip>         -> [val = end time, exp]
    counter,    \* ratelimit:ip:day:<ip>    -> [val = count, exp]
    throttle,   \* throttle:ip:token:<ip>:<token> -> [val, exp]
    challenge,  \* challenge:<id>           -> [val = payload, exp]
    chRate,     \* ratelimit:challenge:hour:<ip> -> [val = count, exp]
    distHour,   \* global:distributed:hour:<token> -> [val = total, exp]
    distDay,    \* global:distributed:day:<token>  -> [val = total, exp]
    balance,    \* the faucet account's balance per token at block "latest"
    pending,    \* per token, the transfers submitted and not yet in a block
    nextId,     \* next challenge identifier GenerateChallenge draws
    powCall,    \* a call of VerifyPoW or a run of SolveChallenge: its
                \* arguments, its loop variable and its result
    cli,        \* a run of the CLI's request command: flags, position, the
                \* calls it has made to the server
    flow,       \* per flow: position, request, locals, response
    hist        \* history of the run (what was transferred, consumed, ...)

storeVars == <<cooldown, counter, throttle, challenge, chRate, distHour, distDay>>

vars == <<now, cfg, storeFails, chainFree, powCall, cli, cooldown, counter, throttle, challenge, chRate,
          distHour, distDay, balance, pending, nextId, flow, hist>>

(* --------------------------- key semantics ---------------------------- *)

\* a key is readable when it was created without TTL or its TTL has not run out
Live(k) == k.exp = Persist \/ k.exp > now

\* GET of an integer key: redis.Nil leaves the Go zero value
GetInt(k) == IF Live(k) THEN k.val ELSE 0

\* INCRBY / INCRBYFLOAT: creates the key (without TTL) when it is missing and
\* keeps the TTL of an existing key
IncrBy(k, n) == IF Live(k) THEN [k EXCEPT !.val = k.val + n]
                ELSE [val |-> n, exp |-> Persist]

\* EXPIRE key ttl: no effect on a missing key
Expire(k, ttl) == IF Live(k) THEN [k EXCEPT !.exp = now + ttl] ELSE k

\* SET key value ttl
SetEx(v, ttl) == [val |-> v, exp |-> now + ttl]

\* the outcomes of one Redis command: TRUE = reply, FALSE = error
StoreOutcomes == IF storeFails THEN {TRUE, FALSE} ELSE {TRUE}

(* --------------------------- pure functions --------------------------- *)

HexChars == {"0", "1", "2", "3", "4", "5", "6", "7", "8", "9",
             "a", "b", "c", "d", "e", "f", "A", "B", "C", "D", "E", "F"}

\* utils.ValidateStarknetAddress: TRUE when err == nil
ValidateStarknetAddress(address) ==
    /\ address # <<>>
    /\ Len(address) >= 2 /\ address[1] = "0" /\ address[2] = "x"
    /\ Len(address) - 2 >= 1 /\ Len(address) - 2 <= 64
    /\ \A i \in 3 .. Len(address) : address[i] \in HexChars

\* the characters of a token string: the ASCII letters and the two letters
\* outside ASCII whose upper case is an ASCII letter, U+017F (long s) and
\* U+0131 (dotless i), each written as its code point
LowerLetters ==
    << "a", "b", "c", "d", "e", "f", "g", "h", "i", "j", "k", "l", "m",
       "n", "o", "p", "q", "r", "s", "t", "u", "v", "w", "x", "y", "z" >>

UpperAscii ==
    << "A", "B", "C", "D", "E", "F", "G", "H", "I", "J", "K", "L", "M",
       "N", "O", "P", "Q", "R", "S", "T", "U", "V", "W", "X", "Y", "Z" >>

\* unicode.ToUpper of one character
UpperChar(c) ==
    IF \E i \in 1 .. 26 : LowerLetters[i] = c
    THEN UpperAscii[CHOOSE i \in 1 .. 26 : LowerLetters[i] = c]
    ELSE IF c = "U+017F" THEN "S"
    ELSE IF c = "U+0131" THEN "I"
    ELSE c

\* strings.ToUpper
ToUpper(s) == [i \in 1 .. Len(s) |-> UpperChar(s[i])]

\* utils.ValidateToken: TRUE when err == nil
ValidateToken(token) ==
    ~ (ToUpper(token) # ETH /\ ToUpper(token) # STRK)

\* The payload GenerateChallenge draws for an identifier:
\* hex.EncodeToString of 32 random bytes, pow.go 39-52. Three draws; for each
\* of them exactly one nonce of Nonces solves difficulty 1.
Payloads ==
    << << "f", "2", "1", "4", "6", "8", "e", "c", "c", "c", "c", "a", "3", "c", "4", "9",
           "8", "3", "7", "5", "c", "f", "9", "7", "c", "7", "e", "1", "e", "c", "3", "e",
           "1", "2", "8", "8", "c", "e", "a", "6", "2", "e", "7", "5", "d", "b", "5", "e",
           "6", "5", "b", "1", "d", "b", "c", "b", "6", "e", "2", "0", "2", "3", "9", "8" >>,
       << "0", "3", "4", "a", "4", "6", "8", "8", "5", "c", "e", "5", "6", "7", "8", "5",
           "2", "1", "d", "b", "c", "0", "4", "a", "3", "f", "d", "3", "c", "0", "d", "2",
           "c", "b", "2", "d", "0", "2", "0", "8", "5", "3", "1", "2", "f", "5", "e", "7",
           "5", "4", "8", "6", "4", "f", "4", "b", "7", "8", "f", "8", "e", "4", "b", "d" >>,
       << "b", "4", "f", "6", "9", "5", "6", "8", "b", "7", "1", "f", "6", "2", "4", "d",
           "5", "2", "2", "5", "3", "e", "9", "2", "4", "6", "6", "3", "f", "d", "6", "2",
           "3", "d", "4", "9", "b", "6", "5", "9", "b", "a", "1", "9", "d", "8", "e", "7",
           "3", "0", "a", "c", "b", "4", "3", "a", "9", "c", "a", "d", "2", "1", "f", "1" >> >>

PayloadOf(id) == Payloads[id]

(* sha256.Sum256 *)

\* crypto/sha256 works on uint32 words; a word is kept as its two 16-bit
\* halves <<high, low>>
Half == 65536

\* x ^ y and x & y of two 4-bit values
XorNibble ==
    << <<0, 1, 2, 3, 4, 5, 6, 7, 8, 9, 10, 11, 12, 13, 14, 15>>,
       <<1, 0, 3, 2, 5, 4, 7, 6, 9, 8, 11, 10, 13, 12, 15, 14>>,
       <<2, 3, 0, 1, 6, 7, 4, 5, 10, 11, 8, 9, 14, 15, 12, 13>>,
       <<3, 2, 1, 0, 7, 6, 5, 4, 11, 10, 9, 8, 15, 14, 13, 12>>,
       <<4, 5, 6, 7, 0, 1, 2, 3, 12, 13, 14, 15, 8, 9, 10, 11>>,
       <<5, 4, 7, 6, 1, 0, 3, 2, 13, 12, 15, 14, 9, 8, 11, 10>>,
       <<6, 7, 4, 5, 2, 3, 0, 1, 14, 15, 12, 13, 10, 11, 8, 9>>,
       <<7, 6, 5, 4, 3, 2, 1, 0, 15, 14, 13, 12, 11, 10, 9, 8>>,
       <<8, 9, 10, 11, 12, 13, 14, 15, 0, 1, 2, 3, 4, 5, 6, 7>>,
       <<9, 8, 11, 10, 13, 12, 15, 14, 1, 0, 3, 2, 5, 4, 7, 6>>,
       <<10, 11, 8, 9, 14, 15, 12, 13, 2, 3, 0, 1, 6, 7, 4, 5>>,
       <<11, 10, 9, 8, 15, 14, 13, 12, 3, 2, 1, 0, 7, 6, 5, 4>>,
       <<12, 13, 14, 15, 8, 9, 10, 11, 4, 5, 6, 7, 0, 1, 2, 3>>,
       <<13, 12, 15, 14, 9, 8, 11, 10, 5, 4, 7, 6, 1, 0, 3, 2>>,
       <<14, 15, 12, 13, 10, 11, 8, 9, 6, 7, 4, 5, 2, 3, 0, 1>>,
       <<15, 14, 13, 12, 11, 10, 9, 8, 7, 6, 5, 4, 3, 2, 1, 0>> >>

AndNibble ==
    << <<0, 0, 0, 0, 0, 0, 0, 0, 0, 0, 0, 0, 0, 0, 0, 0>>,
       <<0, 1, 0, 1, 0, 1, 0, 1, 0, 1, 0, 1, 0, 1, 0, 1>>,
       <<0, 0, 2, 2, 0, 0, 2, 2, 0, 0, 2, 2, 0, 0, 2, 2>>,
       <<0, 1, 2, 3, 0, 1, 2, 3, 0, 1, 2, 3, 0, 1, 2, 3>>,
       <<0, 0, 0, 0, 4, 4, 4, 4, 0, 0, 0, 0, 4, 4, 4, 4>>,
       <<0, 1, 0, 1, 4, 5, 4, 5, 0, 1, 0, 1, 4, 5, 4, 5>>,
       <<0, 0, 2, 2, 4, 4, 6, 6, 0, 0, 2, 2, 4, 4, 6, 6>>,
       <<0, 1, 2, 3, 4, 5, 6, 7, 0, 1, 2, 3, 4, 5, 6, 7>>,
       <<0, 0, 0, 0, 0, 0, 0, 0, 8, 8, 8, 8, 8, 8, 8, 8>>,
       <<0, 1, 0, 1, 0, 1, 0, 1, 8, 9, 8, 9, 8, 9, 8, 9>>,
       <<0, 0, 2, 2, 0, 0, 2, 2, 8, 8, 10, 10, 8, 8, 10, 10>>,
       <<0, 1, 2, 3, 0, 1, 2, 3, 8, 9, 10, 11, 8, 9, 10, 11>>,
       <<0, 0, 0, 0, 4, 4, 4, 4, 8, 8, 8, 8, 12, 12, 12, 12>>,
       <<0, 1, 0, 1, 4, 5, 4, 5, 8, 9, 8, 9, 12, 13, 12, 13>>,
       <<0, 0, 2, 2, 4, 4, 6, 6, 8, 8, 10, 10, 12, 12, 14, 14>>,
       <<0, 1, 2, 3, 4, 5, 6, 7, 8, 9, 10, 11, 12, 13, 14, 15>> >>

Xor16(a, b) ==
    XorNibble[(a % 16) + 1][(b % 16) + 1]
    + 16 * XorNibble[((a \div 16) % 16) + 1][((b \div 16) % 16) + 1]
    + 256 * XorNibble[((a \div 256) % 16) + 1][((b \div 256) % 16) + 1]
    + 4096 * XorNibble[(a \div 4096) + 1][(b \div 4096) + 1]

And16(a, b) ==
    AndNibble[(a % 16) + 1][(b % 16) + 1]
    + 16 * AndNibble[((a \div 16) % 16) + 1][((b \div 16) % 16) + 1]
    + 256 * AndNibble[((a \div 256) % 16) + 1][((b \div 256) % 16) + 1]
    + 4096 * AndNibble[(a \div 4096) + 1][(b \div 4096) + 1]

Xor32(x, y) == << Xor16(x[1], y[1]), Xor16(x[2], y[2]) >>
And32(x, y) == << And16(x[1], y[1]), And16(x[2], y[2]) >>
Not32(x) == << Half - 1 - x[1], Half - 1 - x[2] >>

\* x + y of uint32: the carry out of the high half is dropped
Add32(x, y) ==
    << (x[1] + y[1] + (x[2] + y[2]) \div Half) % Half, (x[2] + y[2]) % Half >>

\* bits.RotateLeft32(x, -n), 0 < n < 32
RotR32(x, n) ==
    LET y == IF n >= 16 THEN << x[2], x[1] >> ELSE x
        m == n % 16
    IN IF m = 0 THEN y
       ELSE << (y[1] \div 2^m) + (y[2] % 2^m) * 2^(16 - m),
               (y[2] \div 2^m) + (y[1] % 2^m) * 2^(16 - m) >>

\* x >> n, 0 < n < 16
ShR32(x, n) == << x[1] \div 2^n, (x[2] \div 2^n) + (x[1] % 2^n) * 2^(16 - n) >>

K256 ==
    << <<17034, 12184>>, <<28983, 17553>>, <<46528, 64463>>, <<59829, 56229>>,
       <<14678, 49755>>, <<23025, 4593>>, <<37439, 33444>>, <<43804, 24277>>,
       <<55303, 43672>>, <<4739, 23297>>, <<9265, 34238>>, <<21772, 32195>>,
       <<29374, 23924>>, <<32990, 45566>>, <<39900, 1703>>, <<49563, 61812>>,
       <<58523, 27073>>, <<61374, 18310>>, <<4033, 40390>>, <<9228, 41420>>,
       <<11753, 11375>>, <<19060, 33962>>, <<23728, 43484>>, <<30457, 35034>>,
       <<38974, 20818>>, <<43057, 50797>>, <<45059, 10184>>, <<48985, 32711>>,
       <<50912, 3059>>, <<54695, 37191>>, <<1738, 25425>>, <<5161, 10599>>,
       <<10167, 2693>>, <<11803, 8504>>, <<19756, 28156>>, <<21304, 3347>>,
       <<25866, 29524>>, <<30314, 2747>>, <<33218, 51502>>, <<37490, 11397>>,
       <<41663, 59553>>, <<43034, 26187>>, <<49739, 35696>>, <<51052, 20899>>,
       <<53650, 59417>>, <<54937, 1572>>, <<62478, 13701>>, <<4202, 41072>>,
       <<6564, 49430>>, <<7735, 27656>>, <<10056, 30540>>, <<13488, 48309>>,
       <<14620, 3251>>, <<20184, 43594>>, <<23452, 51791>>, <<26670, 28659>>,
       <<29839, 33518>>, <<30885, 25455>>, <<33992, 30740>>, <<36039, 520>>,
       <<37054, 65530>>, <<42064, 27883>>, <<48889, 41975>>, <<50801, 30962>> >>

InitH256 ==
    << <<27145, 58983>>, <<47975, 44677>>, <<15470, 62322>>, <<42319, 62778>>,
       <<20750, 21119>>, <<39685, 26764>>, <<8067, 55723>>, <<23520, 52505>> >>

\* the message with its padding: 0x80, zeros up to 56 mod 64, and the length
\* in bits as a big-endian uint64 (the messages here are shorter than 8 KiB)
Pad256(msg) ==
    LET n == Len(msg)
        total == n + 1 + ((55 - n) % 64) + 8
    IN [i \in 1 .. total |->
          IF i <= n THEN msg[i]
          ELSE IF i = n + 1 THEN 128
          ELSE IF i = total - 1 THEN (8 * n) \div 256
          ELSE IF i = total THEN (8 * n) % 256
          ELSE 0]

\* the sixteen big-endian words of block b (counted from 0) of the bytes p
BlockWords(p, b) ==
    [t \in 1 .. 16 |->
        LET o == 64 * b + 4 * (t - 1) IN
        << p[o + 1] * 256 + p[o + 2], p[o + 3] * 256 + p[o + 4] >>]

\* the message schedule: w[t] = s1(w[t-2]) + w[t-7] + s0(w[t-15]) + w[t-16]
RECURSIVE Schedule256(_)
Schedule256(w) ==
    IF Len(w) >= 64 THEN w
    ELSE LET t == Len(w) + 1
             v1 == w[t - 2]
             v2 == w[t - 15]
             s1 == Xor32(Xor32(RotR32(v1, 17), RotR32(v1, 19)), ShR32(v1, 10))
             s0 == Xor32(Xor32(RotR32(v2, 7), RotR32(v2, 18)), ShR32(v2, 3))
         IN Schedule256(Append(w, Add32(Add32(s1, w[t - 7]), Add32(s0, w[t - 16]))))

\* one round on the working variables s = <<a, b, c, d, e, f, g, h>>
Round256(s, k, w) ==
    LET a == s[1]  b == s[2]  c == s[3]  d == s[4]
        e == s[5]  f == s[6]  g == s[7]  h == s[8]
        S1 == Xor32(Xor32(RotR32(e, 6), RotR32(e, 11)), RotR32(e, 25))
        ch == Xor32(And32(e, f), And32(Not32(e), g))
        t1 == Add32(Add32(Add32(h, S1), Add32(ch, k)), w)
        S0 == Xor32(Xor32(RotR32(a, 2), RotR32(a, 13)), RotR32(a, 22))
        maj == Xor32(Xor32(And32(a, b), And32(a, c)), And32(b, c))
        t2 == Add32(S0, maj)
    IN << Add32(t1, t2), a, b, c, Add32(d, t1), e, f, g >>

\* the 64 rounds; st = [i |-> rounds done, s |-> working variables]
RECURSIVE Rounds256(_, _)
Rounds256(st, w) ==
    IF st.i >= 64 THEN st.s
    ELSE Rounds256([i |-> st.i + 1, s |-> Round256(st.s, K256[st.i + 1], w[st.i + 1])], w)

\* the digest state after block b of p, from the state h before it
Block256(h, p, b) ==
    LET w == Schedule256(BlockWords(p, b))
        s == Rounds256([i |-> 0, s |-> h], w)
    IN [j \in 1 .. 8 |-> Add32(h[j], s[j])]

RECURSIVE Blocks256(_, _, _)
Blocks256(h, p, b) ==
    IF 64 * b >= Len(p) THEN h ELSE Blocks256(Block256(h, p, b), p, b + 1)

\* sha256.Sum256 of a sequence of bytes, as eight words
Sum256(msg) == Blocks256(InitH256, Pad256(msg), 0)

HexDigits == << "0", "1", "2", "3", "4", "5", "6", "7",
                "8", "9", "a", "b", "c", "d", "e", "f" >>

\* hex.EncodeToString of the digest
EncodeToString(sum) ==
    [i \in 1 .. 64 |->
        LET word == sum[((i - 1) \div 8) + 1]
            half == word[(((i - 1) % 8) \div 4) + 1]
        IN HexDigits[((half \div 16^(3 - ((i - 1) % 4))) % 16) + 1]]

DecimalDigits == << "0", "1", "2", "3", "4", "5", "6", "7", "8", "9" >>

\* the byte of a character: '-', '0'..'9', 'a'..'z'
ByteOf(c) ==
    IF c = "-" THEN 45
    ELSE IF \E i \in 1 .. 10 : DecimalDigits[i] = c
    THEN 47 + (CHOOSE i \in 1 .. 10 : DecimalDigits[i] = c)
    ELSE 96 + (CHOOSE i \in 1 .. 26 : LowerLetters[i] = c)

\* []byte(data)
Bytes(s) == [i \in 1 .. Len(s) |-> ByteOf(s[i])]

\* fmt.Sprintf("%d", nonce), for |nonce| < 10^9
FormatInt(nonce) ==
    LET n == IF nonce < 0 THEN 0 - nonce ELSE nonce
        k == CHOOSE j \in 1 .. 9 : n < 10^j /\ (j = 1 \/ n >= 10^(j - 1))
        digits == [i \in 1 .. k |-> DecimalDigits[((n \div 10^(k - i)) % 10) + 1]]
    IN IF nonce < 0 THEN << "-" >> \o digits ELSE digits

\* pow.go 72-76: hashHex, the hex digest of fmt.Sprintf("%s%d", challenge, nonce),
\* payload being the challenge string
Sum256Hex(payload, nonce) ==
    EncodeToString(Sum256(Bytes(payload \o FormatInt(nonce))))

\* the digests of the drawn payloads with the nonces 0 and 1, computed once
DrawnDigests ==
    [id \in 1 .. 3 |->
        << SubSeq(Sum256Hex(Payloads[id], 0), 1, 64),
           SubSeq(Sum256Hex(Payloads[id], 1), 1, 64) >>]

HashHex(payload, nonce) ==
    IF nonce \in {0, 1} /\ \E id \in 1 .. 3 : Payloads[id] = payload
    THEN DrawnDigests[CHOOSE id \in 1 .. 3 : Payloads[id] = payload][nonce + 1]
    ELSE Sum256Hex(payload, nonce)

\* strings.Repeat("0", count), for count >= 0
Repeat(c, count) == [i \in 1 .. count |-> c]

\* strings.HasPrefix
HasPrefix(s, prefix) ==
    /\ Len(s) >= Len(prefix)
    /\ \A i \in 1 .. Len(prefix) : s[i] = prefix[i]

\* the outcome of a call that panics
Panic == "panic"

\* mutant of VerifyPoW: the claimed difficulty is not compared with the
\* generator's
VerifyPoWAnyDifficulty(gdifficulty, payload, nonce, difficulty) ==
    HasPrefix(HashHex(payload, nonce), Repeat("0", difficulty))

\* Generator.VerifyPoW, for a generator created with gdifficulty;
\* strings.Repeat panics on a negative count
VerifyPoW(gdifficulty, payload, nonce, difficulty) ==
    IF difficulty # gdifficulty THEN FALSE
    ELSE IF difficulty < 0 THEN Panic
    ELSE HasPrefix(HashHex(payload, nonce), Repeat("0", difficulty))

\* float64 arithmetic of the reserve check (handlers.go 295-300). A positive
\* float64 is kept as its significand, Precision binary digits with the most
\* significant first, and the exponent of its last digit:
\* value = significand * 2^exp. Every number below is a binary numeral, a
\* sequence of digits 0 and 1.
Precision == 53

\* digits carried by the division before it is rounded
DivisionDigits == 64

\* digits a numeral is multiplied by at a time
LimbDigits == 16

\* the binary numeral of n < 2^30, without leading zeros (empty for 0)
ToBits(n) ==
    LET len == CHOOSE l \in 0 .. 30 : n < 2^l /\ (l = 0 \/ 2^(l - 1) <= n)
    IN  [i \in 1 .. len |-> (n \div 2^(len - i)) % 2]

\* the numeral of n < 2^len written with len digits
FixedBits(n, len) == [i \in 1 .. len |-> (n \div 2^(len - i)) % 2]

RECURSIVE ToNat(_)
\* the number a numeral of at most LimbDigits digits stands for
ToNat(bits) ==
    IF bits = <<>> THEN 0
    ELSE 2 * ToNat(SubSeq(bits, 1, Len(bits) - 1)) + bits[Len(bits)]

Zeros(n) == [i \in 1 .. n |-> 0]

StripZeros(bits) ==
    IF \A i \in DOMAIN bits : bits[i] = 0 THEN <<>>
    ELSE LET first == CHOOSE i \in DOMAIN bits :
                          bits[i] = 1 /\ \A j \in 1 .. i - 1 : bits[j] = 0
         IN  SubSeq(bits, first, Len(bits))

\* 2^n modulo den, for n < 90 and den < 2^15
Pow2Mod(n, den) ==
    LET a == IF n > 30 THEN 30 ELSE n
        b == IF n - a > 30 THEN 30 ELSE n - a
        c == n - a - b
    IN  ((((2^a % den) * (2^b % den)) % den) * (2^c % den)) % den

\* what is left of rem / den after n binary digits, for rem < den
FracRem(rem, den, n) == (rem * Pow2Mod(n, den)) % den

\* the first n binary digits of rem / den after the point, for rem < den
FracBits(rem, den, n) ==
    [i \in 1 .. n |-> (2 * FracRem(rem, den, i - 1)) \div den]

RECURSIVE MulBits(_, _, _)
\* the numeral of bits * k + carry, for k < 2^14, worked out LimbDigits digits
\* at a time from the last
MulBits(bits, k, carry) ==
    IF bits = <<>> THEN ToBits(carry)
    ELSE LET n == IF Len(bits) < LimbDigits THEN Len(bits) ELSE LimbDigits
             x == ToNat(SubSeq(bits, Len(bits) - n + 1, Len(bits))) * k + carry
         IN  MulBits(SubSeq(bits, 1, Len(bits) - n), k, x \div 2^n)
                 \o FixedBits(x % 2^n, n)

\* bits + 1, for a numeral that is not all ones
Increment(bits) ==
    LET j == CHOOSE i \in DOMAIN bits :
                 bits[i] = 0 /\ \A k \in i + 1 .. Len(bits) : bits[k] = 1
    IN  [i \in DOMAIN bits |-> IF i < j THEN bits[i] ELSE IF i = j THEN 1 ELSE 0]

\* round to nearest, ties to even: the float64 nearest to bits * 2^exp, where
\* bits has no leading zero and sticky tells that digits beyond bits were
\* dropped that are not all zero
RoundToFloat64(bits, exp, sticky) ==
    IF Len(bits) <= Precision
    THEN [sig |-> bits \o Zeros(Precision - Len(bits)),
          exp |-> exp - (Precision - Len(bits))]
    ELSE LET kept  == SubSeq(bits, 1, Precision)
             drop  == Len(bits) - Precision
             half  == bits[Precision + 1] = 1
             more  == sticky \/ \E i \in Precision + 2 .. Len(bits) : bits[i] = 1
             up    == half /\ (more \/ kept[Precision] = 1)
         IN  IF ~up THEN [sig |-> kept, exp |-> exp + drop]
             ELSE IF \A i \in DOMAIN kept : kept[i] = 1
             THEN [sig |-> <<1>> \o Zeros(Precision - 1), exp |-> exp + drop + 1]
             ELSE [sig |-> Increment(kept), exp |-> exp + drop]

\* float64(num) / float64(den) for integers num >= 1, den >= 1
Float64Quo(num, den) ==
    RoundToFloat64(
        StripZeros(ToBits(num \div den) \o FracBits(num % den, den, DivisionDigits)),
        0 - DivisionDigits,
        FracRem(num % den, den, DivisionDigits) # 0)

\* float64(k) * x for an integer k >= 1 and a positive float64 x
Float64Mul(k, x) == RoundToFloat64(MulBits(x.sig, k, 0), x.exp, FALSE)

\* a < b for numerals without leading zeros
BitsLess(a, b) ==
    \/ Len(a) < Len(b)
    \/ /\ Len(a) = Len(b)
       /\ \E i \in DOMAIN a :
            a[i] < b[i] /\ \A j \in 1 .. i - 1 : a[j] = b[j]

\* float64(n) < x for an integer n >= 1 and a positive float64 x
Float64Less(n, x) ==
    IF x.exp <= 0 THEN BitsLess(ToBits(n) \o Zeros(0 - x.exp), x.sig)
    ELSE BitsLess(ToBits(n), x.sig \o Zeros(x.exp))

\* handlers.go 295-300: minBalancePct := float64(pct) / 100.0;
\* minBalanceRequired := currentBalanceFloat * minBalancePct;
\* balanceAfterTransfer := currentBalanceFloat - amountFloat;
\* balanceAfterTransfer < minBalanceRequired. Balance and amount are whole
\* tokens, which float64 holds exactly, and so is their difference.
BalanceProtectionTriggered(currentBalance, amount, pct) ==
    LET balanceAfterTransfer == currentBalance - amount IN
    IF currentBalance = 0 \/ pct = 0 THEN balanceAfterTransfer < 0
    ELSE IF balanceAfterTransfer <= 0 THEN TRUE
    ELSE Float64Less(balanceAfterTransfer,
                     Float64Mul(currentBalance, Float64Quo(pct, 100)))

(* ------------------------------ flows --------------------------------- *)

NoResp == [status |-> 0, error |-> "", used |-> 0, wait |-> 0, txs |-> <<>>]

IdleFlow ==
    [ pc |-> "idle", ip |-> "", token |-> <<>>, cid |-> 0, nonce |-> 0,
      count |-> 0, wait |-> 0, ti |-> 0, txs |-> <<>>, failed |-> <<>>, both |-> FALSE,
      stale |-> FALSE, late |-> FALSE, swept |-> FALSE, inc |-> {}, err |-> FALSE,
      calls |-> <<>>,
      trace |-> <<>>, resp |-> NoResp ]

\* an error response: c.Status(status).JSON(models.ErrorResponse{Error: error})
Err(status, error) ==
    [status |-> status, error |-> error, used |-> 0, wait |-> 0, txs |-> <<>>]

\* the flow has answered: only the request and the response are kept (and
\* what the history fields stale, late, swept, calls and trace record of it)
Answer(f, resp) ==
    [ IdleFlow EXCEPT !.pc = "done", !.token = f.token,
                      !.both = f.both, !.stale = f.stale, !.late = f.late,
                      !.swept = f.swept, !.calls = f.calls, !.trace = f.trace,
                      !.resp = resp ]

Free(r) == flow[r].pc \in {"idle", "done"}

\* a new request is served by the first flow that is free
Takes(r) == Free(r) /\ \A q \in DOMAIN flow : q < r => ~Free(q)

(* ------------------------------ history ------------------------------- *)

InitHist ==
    [ requests     |-> 0,
      submitted    |-> [ip \in IPs |-> 0],
      everCooldown |-> [ip \in IPs |-> FALSE],
      cooldownAt   |-> [ip \in IPs |-> Persist],
      powPass      |-> [c \in ChallengeIds |-> 0],
      spent        |-> [c \in ChallengeIds |-> 0],
      consumed     |-> {},
      wrongNonce   |-> {},
      lastXfer     |-> [ip \in IPs |-> [t \in Tokens |-> Persist]],
      within       |-> [ip \in IPs |-> [t \in Tokens |-> FALSE]],
      inCooldown   |-> [ip \in IPs |-> FALSE],
      startBalance |-> InitBalance,
      reservedHour |-> [t \in Tokens |-> <<>>],
      issuedAt     |-> [ip \in IPs |-> <<>>] ]

(* ------------------------------- Init --------------------------------- *)

\* no call of the pow package is under way
NoCall ==
    [ pc |-> "none", gdifficulty |-> 0, payload |-> <<>>, nonce |-> 0,
      difficulty |-> 0, accepted |-> FALSE ]

\* the request command of the CLI is not running
NoCli ==
    [ pc |-> "none", address |-> <<>>, token |-> <<>>, both |-> FALSE,
      jsonOut |-> FALSE, todo |-> <<>>, attempt |-> 0, fetched |-> 0, cid |-> 0,
      nonce |-> 0, sent |-> <<>>, err |-> FALSE ]

InitCalling(configs, failures, balances, calls, chains) ==
    /\ cli = NoCli
    /\ now = 0
    /\ cfg \in configs
    /\ storeFails \in failures
    /\ chainFree \in chains
    /\ cooldown = [ip \in IPs |-> Absent]
    /\ counter = [ip \in IPs |-> Absent]
    /\ throttle = [ip \in IPs |-> [t \in Tokens |-> Absent]]
    /\ challenge = [c \in ChallengeIds |-> NoChallenge]
    /\ chRate = [ip \in IPs |-> Absent]
    /\ distHour = [t \in Tokens |-> Absent]
    /\ distDay = [t \in Tokens |-> Absent]
    /\ balance \in balances
    /\ pending = [t \in Tokens |-> 0]
    /\ nextId = 1
    /\ flow = [r \in Flows |-> IdleFlow]
    /\ hist = [InitHist EXCEPT !.startBalance = balance]
    /\ powCall \in calls

InitFrom(configs, failures, balances) ==
    InitCalling(configs, failures, balances, {NoCall}, {FALSE})

InitWith(configs, failures) == InitFrom(configs, failures, {InitBalance})

\* the same configuration with a daily quota of one request
OneADay == [BaseConfig EXCEPT !.MaxRequestsPerDayIP = 1]

Init == InitWith({BaseConfig, OneADay}, {FALSE})

InitSeq == InitWith({BaseConfig}, {FALSE})

(* ------------------------------- time --------------------------------- *)

\* a key whose TTL has run out at time t is gone
Purge(k, t) == IF k.exp # Persist /\ k.exp <= t THEN Absent ELSE k

\* the cooldown key: its value is the client's clock plus 24 hours, rounded
\* down to the second (redis.go 110, 113), its TTL of 24 hours starts when the
\* server receives the SET. At the time t the value names, the key may still
\* be there (keep, for each key on its own); it is gone before the next tick
PurgeCooldown(k, t, keep) ==
    IF keep /\ k.exp = t /\ k.val = t THEN [k EXCEPT !.exp = t + 1] ELSE Purge(k, t)

PurgeChallenge(k, t) == IF k.exp # Persist /\ k.exp <= t THEN NoChallenge ELSE k

\* d ticks pass; Redis drops the keys whose TTL has run out
Elapse(d) ==
    /\ now' = now + d
    /\ \E keep \in [IPs -> BOOLEAN] :
         cooldown' = [ip \in IPs |-> PurgeCooldown(cooldown[ip], now + d, keep[ip])]
    /\ counter' = [ip \in IPs |-> Purge(counter[ip], now + d)]
    /\ throttle' = [ip \in IPs |-> [t \in Tokens |-> Purge(throttle[ip][t], now + d)]]
    /\ challenge' = [c \in ChallengeIds |-> PurgeChallenge(challenge[c], now + d)]
    /\ chRate' = [ip \in IPs |-> Purge(chRate[ip], now + d)]
    /\ distHour' = [t \in Tokens |-> Purge(distHour[t], now + d)]
    /\ distDay' = [t \in Tokens |-> Purge(distDay[t], now + d)]

\* one tick passes, wherever the requests being served stand
Tick(maxTime) ==
    /\ now < maxTime
    /\ Elapse(1)
    /\ UNCHANGED <<cfg, storeFails, chainFree, powCall, cli, balance, pending, nextId, flow, hist>>

\* a tick passes between two requests (a request is served in far less than
\* a tick)
TickIdle(maxTime) == (\A r \in Flows : Free(r)) /\ Tick(maxTime)

\* d ticks pass while no request is being served
Sleep(d, maxTime) ==
    /\ \A r \in Flows : Free(r)
    /\ now + d <= maxTime
    /\ Elapse(d)
    /\ UNCHANGED <<cfg, storeFails, chainFree, powCall, cli, balance, pending, nextId, flow, hist>>

(* ---------------------- GetChallenge (handlers.go) -------------------- *)

\* handlers.go 47-63 with redis.go CheckChallengeRateLimit: GET of the hourly
\* challenge counter of the IP (in a run that draws at most the given number
\* of challenges)
GetChallenge_CheckRate(r, ip, challenges) ==
    /\ Takes(r)
    /\ nextId + Cardinality({q \in DOMAIN flow : flow[q].pc = "cr_store"}) <= challenges
    /\ \E ok \in StoreOutcomes :
         flow' = [flow EXCEPT ![r] =
            IF ~ok THEN Answer([IdleFlow EXCEPT !.ip = ip],
                               Err(500, "Failed to check rate limit"))
            ELSE IF GetInt(chRate[ip]) >= cfg.MaxChallengesPerHour
            THEN Answer([IdleFlow EXCEPT !.ip = ip],
                        Err(429, "Too many challenge requests"))
            ELSE [IdleFlow EXCEPT !.pc = "cr_store", !.ip = ip]]
    /\ UNCHANGED <<now, cfg, storeFails, chainFree, powCall, cli, storeVars, balance, pending, nextId, hist>>

\* handlers.go 65-81: GenerateChallenge draws a fresh identifier and payload
\* (an error of rand.Read, pow.go 40-48, is answered with 500 before the store
\* is touched), StoreChallenge is SET challenge:<id> payload ttl
GetChallenge_Store(r) ==
    /\ flow[r].pc = "cr_store"
    /\ nextId <= MaxChallenges
    /\ \E gen \in BOOLEAN, ok \in StoreOutcomes :
         IF ~gen
         THEN /\ ok
              /\ challenge' = challenge
              /\ hist' = hist
              /\ nextId' = nextId
              /\ flow' = [flow EXCEPT ![r] =
                            Answer(@, Err(500, "Failed to generate challenge"))]
         ELSE IF ok
         THEN /\ challenge' = [challenge EXCEPT ![nextId] =
                                  SetEx(PayloadOf(nextId), cfg.ChallengeTTL)]
              /\ hist' = [hist EXCEPT !.issuedAt[flow[r].ip] = Append(@, now)]
              /\ nextId' = nextId + 1
              /\ flow' = [flow EXCEPT ![r] = [@ EXCEPT !.pc = "cr_incr", !.cid = nextId]]
         ELSE /\ challenge' = challenge
              /\ hist' = hist
              /\ nextId' = nextId + 1
              /\ flow' = [flow EXCEPT ![r] = Answer(@, Err(500, "Failed to store challenge"))]
    /\ UNCHANGED <<now, cfg, storeFails, chainFree, powCall, cli, cooldown, counter, throttle, chRate,
                   distHour, distDay, balance, pending>>

\* redis.go 273-276, IncrementChallengeRateLimit: INCR of the hourly challenge
\* counter, the first command of the pipeline.  A pipeline is sent as one
\* batch but is no transaction: Redis runs its commands one after the other,
\* each with its own outcome, the commands queued behind a failed one run all
\* the same, and commands of other clients and the expiry of a key can come
\* between two of them.
GetChallenge_Increment(r) ==
    /\ flow[r].pc = "cr_incr"
    /\ \E ok \in StoreOutcomes :
         chRate' = IF ok THEN [chRate EXCEPT ![flow[r].ip] = IncrBy(@, 1)] ELSE chRate
    /\ flow' = [flow EXCEPT ![r] = [@ EXCEPT !.pc = "cr_expire"]]
    /\ UNCHANGED <<now, cfg, storeFails, chainFree, powCall, cli, cooldown, counter, throttle, challenge,
                   distHour, distDay, balance, pending, nextId, hist>>

\* redis.go 277-279, IncrementChallengeRateLimit: EXPIRE 1h of the counter, the
\* second command of the pipeline; handlers.go 83-93: the error Exec returns
\* is logged and the challenge is returned anyway
GetChallenge_Expire(r) ==
    /\ flow[r].pc = "cr_expire"
    /\ \E ok \in StoreOutcomes :
         chRate' = IF ok THEN [chRate EXCEPT ![flow[r].ip] = Expire(@, Hour)] ELSE chRate
    /\ flow' = [flow EXCEPT ![r] =
                  Answer(@, [NoResp EXCEPT !.status = 200, !.error = "challenge"])]
    /\ UNCHANGED <<now, cfg, storeFails, chainFree, powCall, cli, cooldown, counter, throttle, challenge,
                   distHour, distDay, balance, pending, nextId, hist>>

(* ---------------------- RequestTokens (handlers.go) ------------------- *)

\* the gate a position of RequestTokens belongs to
GateOf(pc) ==
    CASE pc \in {"dl_cooldown", "dl_cooldel", "dl_counter", "dl_quota", "dl_quota2"}
           -> "daily"
      [] pc \in {"th_exists", "th_ttl", "th_quota", "th_quota2"} -> "throttle"
      [] pc \in {"ch_get", "ch_del"} -> "pow"
      [] pc \in {"gd_hour", "gd_day", "gd_inchour", "gd_exphour", "gd_incday",
                  "gd_expday"} -> "cap"
      [] pc = "balance" -> "reserve"
      [] pc = "transfer" -> "transfer"
      [] OTHER -> "commit"

\* the flow moves to position pc; when it thereby leaves a gate for a later
\* one, the trace records the gate it has passed
Enter(f, pc) ==
    [f EXCEPT !.pc = pc,
              !.trace = IF f.pc \in {"idle", "done"} \/ GateOf(pc) = GateOf(f.pc)
                        THEN @ ELSE Append(@, GateOf(f.pc))]

\* mutant of CurToken: every check and transfer is made for the first token
CurTokenFirst(f) == BothTokens[1]

\* the token a flow is working on: req.Token, or the loop variable of
\* handleBothTokensRequest / of the two throttle checks of a BOTH request
CurToken(f) == IF f.both \/ f.token = BOTH THEN BothTokens[f.ti] ELSE f.token

\* history of a request: the challenge it names was issued, has never been
\* verified or deleted, and its record is gone from the store (SET with a TTL
\* of ChallengeTTL, handlers.go 74-75)
Lapsed(c) ==
    /\ c < nextId /\ c \notin hist.consumed /\ hist.powPass[c] = 0
    /\ ~Live(challenge[c])

\* history of a request: its nonce solves the payload issued under the id
Solves(c, nonce) ==
    VerifyPoW(cfg.PoWDifficulty, PayloadOf(c), nonce, cfg.PoWDifficulty)

\* handlers.go 97-125: parse and validate; no store access (in a run of at
\* most the given number of dispatch requests)
RequestTokens_Validate(r, ip, body, requests) ==
    /\ Takes(r)
    /\ hist.requests < requests
    /\ hist' = [hist EXCEPT !.requests = @ + 1]
    /\ flow' = [flow EXCEPT ![r] =
         IF ~body.parsed
         THEN Answer([IdleFlow EXCEPT !.ip = ip], Err(400, "Invalid request body"))
         ELSE IF ~ValidateStarknetAddress(body.address)
         THEN Answer([IdleFlow EXCEPT !.ip = ip], Err(400, "Invalid address"))
         ELSE IF ~ValidateToken(ToUpper(body.token))
         THEN Answer([IdleFlow EXCEPT !.ip = ip, !.token = ToUpper(body.token)],
                     Err(400, "invalid token: must be ETH or STRK"))
         ELSE Enter([IdleFlow EXCEPT !.ip = ip, !.token = ToUpper(body.token),
                                     !.cid = body.challenge_id, !.nonce = body.nonce,
                                     !.stale = body.challenge_id \in hist.consumed,
                                     !.late = /\ Lapsed(body.challenge_id)
                                              /\ Solves(body.challenge_id, body.nonce)],
                    "dl_cooldown")]
    /\ UNCHANGED <<now, cfg, storeFails, chainFree, powCall, cli, storeVars, balance, pending, nextId>>

\* redis.go 73-83, CheckIPDailyLimit: GET cooldown:ip, and, when the key is
\* there but its time has passed, DEL cooldown:ip as a second command, whose
\* result is not looked at; handlers.go 137-144. The field swept records that
\* the request has removed the key.
CheckIPDailyLimit_GetCooldown(r) ==
    LET f == flow[r] IN
    /\ f.pc \in {"dl_cooldown", "dl_cooldel"}
    /\ \E ok \in StoreOutcomes :
         IF f.pc = "dl_cooldel"
         THEN /\ cooldown' = IF ok THEN [cooldown EXCEPT ![f.ip] = Absent] ELSE cooldown
              /\ flow' = [flow EXCEPT ![r] = Enter([f EXCEPT !.swept = ok], "dl_counter")]
         ELSE /\ cooldown' = cooldown
              /\ flow' = [flow EXCEPT ![r] =
                    IF ok /\ Live(cooldown[f.ip])
                    THEN IF now < cooldown[f.ip].val
                         THEN Answer(f,
                                [Err(429, "Daily limit reached. In 24-hour cooldown")
                                    EXCEPT !.wait = cooldown[f.ip].val - now,
                                           !.used = cfg.MaxRequestsPerDayIP])
                         ELSE Enter(f, "dl_cooldel")
                    ELSE Enter(f, "dl_counter")]
    /\ UNCHANGED <<now, cfg, storeFails, chainFree, powCall, cli, counter, throttle, challenge, chRate,
                   distHour, distDay, balance, pending, nextId, hist>>

\* requestCost, handlers.go 146-150
RequestCost(token) == IF token = BOTH THEN 2 ELSE 1

\* redis.go 85-94, CheckIPDailyLimit: GET ratelimit:ip:day; handlers.go 129-160
CheckIPDailyLimit_GetCounter(r) ==
    LET f == flow[r]
        count == GetInt(counter[f.ip])
        canRequest == ~ (count >= cfg.MaxRequestsPerDayIP)
    IN
    /\ f.pc = "dl_counter"
    /\ \E ok \in StoreOutcomes :
         flow' = [flow EXCEPT ![r] =
            IF ~ok THEN Answer(f, Err(500, "Failed to check rate limit"))
            ELSE IF ~canRequest
                    \/ (count + RequestCost(f.token)) > cfg.MaxRequestsPerDayIP
            THEN Enter(f, "dl_quota")
            ELSE Enter([f EXCEPT !.count = count, !.ti = 1], "th_exists")]
    /\ UNCHANGED <<now, cfg, storeFails, chainFree, powCall, cli, storeVars, balance, pending, nextId, hist>>

\* redis.go 69-95, CheckIPDailyLimit, as one read of the store:
\* (canRequest, currentCount, cooldownEnd)
CheckIPDailyLimit(ip) ==
    IF Live(cooldown[ip]) /\ now < cooldown[ip].val
    THEN [canRequest |-> FALSE, count |-> cfg.MaxRequestsPerDayIP,
          cooldownEnd |-> cooldown[ip].val]
    ELSE IF GetInt(counter[ip]) >= cfg.MaxRequestsPerDayIP
    THEN [canRequest |-> FALSE, count |-> GetInt(counter[ip]), cooldownEnd |-> 0]
    ELSE [canRequest |-> TRUE, count |-> GetInt(counter[ip]), cooldownEnd |-> 0]

\* handlers.go 137-160: the daily-limit gate admits a request of cost c
DailyLimitAdmits(ip, c) ==
    LET k == CheckIPDailyLimit(ip) IN
    /\ ~ (~k.canRequest /\ k.cooldownEnd # 0)
    /\ ~ (~k.canRequest \/ (k.count + c) > cfg.MaxRequestsPerDayIP)

\* mutant of GetIPDailyQuota: the cooldown is not looked at
GetIPDailyQuotaOfCounter(ip, ok1, ok2) ==
    IF ~ok2
    THEN [used |-> 0, remaining |-> 0, cooldownEnd |-> 0, err |-> TRUE]
    ELSE [used |-> GetInt(counter[ip]),
          remaining |-> IF cfg.MaxRequestsPerDayIP - GetInt(counter[ip]) < 0 THEN 0
                        ELSE cfg.MaxRequestsPerDayIP - GetInt(counter[ip]),
          cooldownEnd |-> 0, err |-> FALSE]

\* redis.go 156-182, GetIPDailyQuota: the value `used` it returns; ok1 and ok2
\* are the outcomes of its two GETs
GetIPDailyQuota(ip, ok1, ok2) ==
    IF ok1 /\ Live(cooldown[ip]) /\ now < cooldown[ip].val
    THEN [used |-> cfg.MaxRequestsPerDayIP, remaining |-> 0,
          cooldownEnd |-> cooldown[ip].val, err |-> FALSE]
    ELSE IF ~ok2
    THEN [used |-> 0, remaining |-> 0, cooldownEnd |-> 0, err |-> TRUE]
    ELSE [used |-> GetInt(counter[ip]),
          remaining |-> IF cfg.MaxRequestsPerDayIP - GetInt(counter[ip]) < 0 THEN 0
                        ELSE cfg.MaxRequestsPerDayIP - GetInt(counter[ip]),
          cooldownEnd |-> 0, err |-> FALSE]

\* GetIPDailyQuota as the handlers call it (used, _, _, _ := ...), one GET per
\* step: at position first GET cooldown:ip, at position second GET
\* ratelimit:ip:day; resp is the rejection the value `used` is written into
GetIPDailyQuota_Step(f, first, second, ok, resp) ==
    IF f.pc = first
    THEN IF GetIPDailyQuota(f.ip, ok, TRUE).cooldownEnd # 0
         THEN Answer(f, [resp EXCEPT !.used = GetIPDailyQuota(f.ip, ok, TRUE).used])
         ELSE Enter(f, second)
    ELSE Answer(f, [resp EXCEPT !.used = GetIPDailyQuota(f.ip, FALSE, ok).used])

\* handlers.go 153-160: the quota is read again for the message
RequestTokens_DailyLimitReached(r) ==
    LET f == flow[r] IN
    /\ f.pc \in {"dl_quota", "dl_quota2"}
    /\ \E ok \in StoreOutcomes :
         flow' = [flow EXCEPT ![r] =
                    GetIPDailyQuota_Step(f, "dl_quota", "dl_quota2", ok,
                                         Err(429, "IP daily limit reached"))]
    /\ UNCHANGED <<now, cfg, storeFails, chainFree, powCall, cli, storeVars, balance, pending, nextId, hist>>

\* CheckIPDailyLimit's second read, and the rejection that follows a quota
\* found used up
RequestTokens_CheckIPDailyLimit(r) ==
    IF flow[r].pc \in {"dl_quota", "dl_quota2"} THEN RequestTokens_DailyLimitReached(r)
    ELSE CheckIPDailyLimit_GetCounter(r)

\* redis.go 126-137, CheckTokenHourlyThrottle: EXISTS throttle:ip:token;
\* handlers.go 162-216 (one check for a single token, STRK then ETH for BOTH)
CheckTokenHourlyThrottle_Exists(r) ==
    LET f == flow[r] IN
    /\ f.pc = "th_exists"
    /\ \E ok \in StoreOutcomes :
         flow' = [flow EXCEPT ![r] =
            IF ~ok THEN Answer(f, Err(500, "Failed to check rate limit"))
            ELSE IF Live(throttle[f.ip][CurToken(f)]) THEN Enter(f, "th_ttl")
            ELSE IF f.token = BOTH /\ f.ti = 1 THEN Enter([f EXCEPT !.ti = 2], "th_exists")
            ELSE Enter(f, "ch_get")]
    /\ UNCHANGED <<now, cfg, storeFails, chainFree, powCall, cli, storeVars, balance, pending, nextId, hist>>

\* mutant of CheckTokenHourlyThrottle_TTL: a request refused by the throttle
\* starts the hour of the marker again
CheckTokenHourlyThrottle_Renew(r) ==
    LET f == flow[r]
        t == CurToken(f)
        k == throttle[f.ip][t]
    IN
    /\ f.pc \in {"th_ttl", "th_quota", "th_quota2"}
    /\ throttle' = IF f.pc = "th_ttl" THEN [throttle EXCEPT ![f.ip][t] = SetEx(now, Hour)]
                   ELSE throttle
    /\ flow' = [flow EXCEPT ![r] =
          IF f.pc = "th_ttl"
          THEN Enter([f EXCEPT !.wait = IF Live(k) THEN k.exp - now ELSE 0], "th_quota")
          ELSE GetIPDailyQuota_Step(f, "th_quota", "th_quota2", TRUE,
                   [Err(429, "hourly throttle active") EXCEPT !.wait = f.wait])]
    /\ UNCHANGED <<now, cfg, storeFails, chainFree, powCall, cli, cooldown, counter, challenge, chRate,
                   distHour, distDay, balance, pending, nextId, hist>>

\* redis.go 139-146, CheckTokenHourlyThrottle: TTL of the marker; handlers.go
\* 207-215: the rejection with the time remaining and the quota used, which
\* GetIPDailyQuota reads with two further commands
CheckTokenHourlyThrottle_TTL(r) ==
    LET f == flow[r]
        k == throttle[f.ip][CurToken(f)]
    IN
    /\ f.pc \in {"th_ttl", "th_quota", "th_quota2"}
    /\ \E ok \in StoreOutcomes :
         flow' = [flow EXCEPT ![r] =
            IF f.pc = "th_ttl"
            THEN IF ~ok THEN Answer(f, Err(500, "Failed to check rate limit"))
                 ELSE Enter([f EXCEPT !.wait = IF Live(k) THEN k.exp - now ELSE 0],
                            "th_quota")
            ELSE GetIPDailyQuota_Step(f, "th_quota", "th_quota2", ok,
                     [Err(429, "hourly throttle active") EXCEPT !.wait = f.wait])]
    /\ UNCHANGED <<now, cfg, storeFails, chainFree, powCall, cli, storeVars, balance, pending, nextId, hist>>

\* mutant of GuardEntry: a token without caps goes to the transfer unchecked
GuardEntryNoReserve(f) ==
    LET t == CurToken(f) IN
    IF cfg.MaxTokensPerHour[t] = 0 /\ cfg.MaxTokensPerDay[t] = 0 THEN "transfer"
    ELSE IF cfg.MaxTokensPerHour[t] > 0 THEN "gd_hour"
    ELSE IF cfg.MaxTokensPerDay[t] > 0 THEN "gd_day"
    ELSE "balance"

\* mutant of GuardEntry: a cap of 0 is checked like any other
GuardEntryChecksZero(f) == "gd_hour"

\* TrackGlobalDistribution is entered for the current token: redis.go 190-199
\* and the guards of 200 and 210. When neither cap is positive no total is
\* read and the pipeline is empty: the call returns true
GuardEntry(f) ==
    LET t == CurToken(f) IN
    IF cfg.MaxTokensPerHour[t] = 0 /\ cfg.MaxTokensPerDay[t] = 0 THEN "balance"
    ELSE IF cfg.MaxTokensPerHour[t] > 0 THEN "gd_hour"
    ELSE IF cfg.MaxTokensPerDay[t] > 0 THEN "gd_day"
    ELSE "balance"

\* mutant of RequestTokens_GetChallenge: the result of the lookup is not
\* checked, a missing record is verified like a stored one
RequestTokens_GetChallengeUnchecked(r) ==
    LET f == flow[r]
        valid == VerifyPoW(cfg.PoWDifficulty, PayloadOf(f.cid), f.nonce,
                           cfg.PoWDifficulty)
    IN
    /\ f.pc = "ch_get"
    /\ flow' = [flow EXCEPT ![r] =
          IF ~valid THEN Answer(f, Err(400, "Invalid proof of work solution"))
          ELSE Enter(f, "ch_del")]
    /\ hist' = IF valid THEN [hist EXCEPT !.powPass[f.cid] = @ + 1] ELSE hist
    /\ UNCHANGED <<now, cfg, storeFails, chainFree, powCall, cli, storeVars, balance, pending, nextId>>

\* mutant of RequestTokens_GetChallenge: the record is taken out of the store
\* by the lookup (GETDEL), whatever the verification says
RequestTokens_GetDelChallenge(r) ==
    LET f == flow[r]
        found == Live(challenge[f.cid])
        valid == VerifyPoW(cfg.PoWDifficulty, challenge[f.cid].val, f.nonce,
                           cfg.PoWDifficulty)
    IN
    /\ f.pc = "ch_get"
    /\ flow' = [flow EXCEPT ![r] =
          IF ~found THEN Answer(f, Err(400, "Invalid or expired challenge"))
          ELSE IF ~valid THEN Answer(f, Err(400, "Invalid proof of work solution"))
          ELSE Enter(f, "ch_del")]
    /\ hist' = IF found /\ valid
               THEN [hist EXCEPT !.powPass[f.cid] = @ + 1]
               ELSE IF found
               THEN [hist EXCEPT !.wrongNonce = @ \cup {f.cid}]
               ELSE hist
    /\ challenge' = [challenge EXCEPT ![f.cid] = NoChallenge]
    /\ UNCHANGED <<now, cfg, storeFails, chainFree, powCall, cli, cooldown, counter, throttle,
                   chRate, distHour, distDay, balance, pending, nextId>>

\* redis.go 56-59 GetChallenge, handlers.go 218-236: GET challenge:<id>, then
\* VerifyPoW on the stored payload
RequestTokens_GetChallenge(r) ==
    LET f == flow[r]
        found == Live(challenge[f.cid])
        valid == VerifyPoW(cfg.PoWDifficulty, challenge[f.cid].val, f.nonce,
                           cfg.PoWDifficulty)
    IN
    /\ f.pc = "ch_get"
    /\ \E ok \in StoreOutcomes :
         /\ flow' = [flow EXCEPT ![r] =
              IF ~ok \/ ~found THEN Answer(f, Err(400, "Invalid or expired challenge"))
              ELSE IF ~valid THEN Answer(f, Err(400, "Invalid proof of work solution"))
              ELSE Enter(f, "ch_del")]
         /\ hist' = IF ok /\ found /\ valid
                    THEN [hist EXCEPT !.powPass[f.cid] = @ + 1]
                    ELSE IF ok /\ found
                    THEN [hist EXCEPT !.wrongNonce = @ \cup {f.cid}]
                    ELSE hist
    /\ UNCHANGED <<now, cfg, storeFails, chainFree, powCall, cli, storeVars, balance, pending, nextId>>

\* mutant of RequestTokens_DeleteChallenge: the challenge record is kept
RequestTokens_KeepChallenge(r) ==
    LET f == flow[r] IN
    /\ f.pc = "ch_del"
    /\ hist' = [hist EXCEPT !.consumed = @ \cup {f.cid}]
    /\ flow' = [flow EXCEPT ![r] = Enter([f EXCEPT !.ti = 1],
                                          GuardEntry([f EXCEPT !.ti = 1]))]
    /\ UNCHANGED <<now, cfg, storeFails, chainFree, powCall, cli, storeVars, balance, pending, nextId>>

\* mutant of RequestTokens_DeleteChallenge: an error of DEL ends the request
RequestTokens_DeleteChallengeOrFail(r) ==
    LET f == flow[r]
        g == IF f.token = BOTH THEN [f EXCEPT !.both = TRUE, !.ti = 1]
             ELSE [f EXCEPT !.ti = 1]
    IN
    /\ f.pc = "ch_del"
    /\ \E ok \in StoreOutcomes :
         /\ challenge' = IF ok THEN [challenge EXCEPT ![f.cid] = NoChallenge] ELSE challenge
         /\ hist' = IF ok THEN [hist EXCEPT !.consumed = @ \cup {f.cid}] ELSE hist
         /\ flow' = [flow EXCEPT ![r] =
               IF ok THEN Enter(g, GuardEntry(g))
               ELSE Answer(f, Err(500, "Failed to process request"))]
    /\ UNCHANGED <<now, cfg, storeFails, chainFree, powCall, cli, cooldown, counter, throttle, chRate,
                   distHour, distDay, balance, pending, nextId>>

\* mutant of RequestTokens_DeleteChallenge: the request goes on to the
\* distribution guard without the DEL
RequestTokens_SkipDelete(r) ==
    LET f == flow[r]
        g == IF f.token = BOTH THEN [f EXCEPT !.both = TRUE, !.ti = 1]
             ELSE [f EXCEPT !.ti = 1]
    IN
    /\ f.pc = "ch_del"
    /\ flow' = [flow EXCEPT ![r] = Enter(g, GuardEntry(g))]
    /\ UNCHANGED <<now, cfg, storeFails, chainFree, powCall, cli, storeVars, balance, pending, nextId, hist>>

\* redis.go 62-65 DeleteChallenge, handlers.go 238-246: DEL challenge:<id>; an
\* error is logged and the request goes on
RequestTokens_DeleteChallenge(r) ==
    LET f == flow[r]
        g == IF f.token = BOTH THEN [f EXCEPT !.both = TRUE, !.ti = 1]
             ELSE [f EXCEPT !.ti = 1]
    IN
    /\ f.pc = "ch_del"
    /\ \E ok \in StoreOutcomes :
         /\ challenge' = IF ok THEN [challenge EXCEPT ![f.cid] = NoChallenge] ELSE challenge
         /\ hist' = IF ok THEN [hist EXCEPT !.consumed = @ \cup {f.cid}] ELSE hist
    /\ flow' = [flow EXCEPT ![r] = Enter(g, GuardEntry(g))]
    /\ UNCHANGED <<now, cfg, storeFails, chainFree, powCall, cli, cooldown, counter, throttle, chRate,
                   distHour, distDay, balance, pending, nextId>>

\* mutant of GateFailed: the request goes on to the commit
GateFailedCommits(f, resp) == Enter([f EXCEPT !.ti = 1], "incr")

\* A gate of the current token has failed.  RequestTokens answers with resp;
\* handleBothTokensRequest records failedToken, leaves the loop (break) and
\* goes on at handlers.go 529-558.
GateFailed(f, resp) ==
    IF ~f.both THEN Answer(f, resp)
    ELSE IF Len(f.txs) > 0 THEN Enter([f EXCEPT !.failed = CurToken(f)], "incr")
    ELSE Answer([f EXCEPT !.failed = CurToken(f)],
                Err(500, "Failed to send %s tokens"))

\* redis.go 199-207, TrackGlobalDistribution: GET of the hourly total and the
\* hourly check; handlers.go 264-280 / 475-486
TrackGlobalDistribution_GetHourly(r) ==
    LET f == flow[r]
        t == CurToken(f)
        hourlyTotal == GetInt(distHour[t])
    IN
    /\ f.pc = "gd_hour"
    /\ \E ok \in StoreOutcomes :
         flow' = [flow EXCEPT ![r] =
            IF ~ok THEN GateFailed(f, Err(500, "Failed to process request"))
            ELSE IF hourlyTotal + cfg.DripAmount[t] > cfg.MaxTokensPerHour[t]
            THEN GateFailed(f, Err(503, "Faucet has reached its distribution limit"))
            ELSE IF cfg.MaxTokensPerDay[t] > 0 THEN Enter(f, "gd_day")
            ELSE Enter(f, "gd_inchour")]
    /\ UNCHANGED <<now, cfg, storeFails, chainFree, powCall, cli, storeVars, balance, pending, nextId, hist>>

\* redis.go 209-218, TrackGlobalDistribution: GET of the daily total and the
\* daily check
TrackGlobalDistribution_GetDaily(r) ==
    LET f == flow[r]
        t == CurToken(f)
        dailyTotal == GetInt(distDay[t])
    IN
    /\ f.pc = "gd_day"
    /\ \E ok \in StoreOutcomes :
         flow' = [flow EXCEPT ![r] =
            IF ~ok THEN GateFailed(f, Err(500, "Failed to process request"))
            ELSE IF dailyTotal + cfg.DripAmount[t] > cfg.MaxTokensPerDay[t]
            THEN GateFailed(f, Err(503, "Faucet has reached its distribution limit"))
            ELSE IF cfg.MaxTokensPerHour[t] > 0 THEN Enter(f, "gd_inchour")
            ELSE Enter(f, "gd_incday")]
    /\ UNCHANGED <<now, cfg, storeFails, chainFree, powCall, cli, storeVars, balance, pending, nextId, hist>>

\* TrackGlobalDistribution has sent its pipeline (redis.go 231-232, return
\* err == nil, err): Exec returns the first error of the batch, kept in the
\* flow as err; handlers.go 264-271 / 475-480
TrackGlobalDistribution_Exec(f, ok) ==
    IF ~f.err /\ ok THEN Enter([f EXCEPT !.inc = {}], "balance")
    ELSE GateFailed([f EXCEPT !.inc = {}, !.err = FALSE],
                    Err(500, "Failed to process request"))

\* redis.go 221-223, TrackGlobalDistribution: INCRBYFLOAT of the hourly key,
\* the first command of the pipeline (a plain Pipeline, see
\* GetChallenge_Increment).  The flow field inc records the windows the call
\* has raised.
TrackGlobalDistribution_IncrHourly(r) ==
    LET f == flow[r]
        t == CurToken(f)
    IN
    /\ f.pc = "gd_inchour"
    /\ \E ok \in StoreOutcomes :
         /\ distHour' = IF ok THEN [distHour EXCEPT ![t] = IncrBy(@, cfg.DripAmount[t])]
                        ELSE distHour
         /\ hist' = IF ok THEN [hist EXCEPT !.reservedHour[t] = Append(@, now)]
                    ELSE hist
         /\ flow' = [flow EXCEPT ![r] =
               Enter([f EXCEPT !.inc = IF ok THEN @ \cup {"hour"} ELSE @,
                               !.err = ~ok], "gd_exphour")]
    /\ UNCHANGED <<now, cfg, storeFails, chainFree, powCall, cli, cooldown, counter, throttle, challenge,
                   chRate, distDay, balance, pending, nextId>>

\* redis.go 224, TrackGlobalDistribution: EXPIRE 1h of the hourly key; the
\* last command of the batch when the daily cap is disabled
TrackGlobalDistribution_ExpireHourly(r) ==
    LET f == flow[r]
        t == CurToken(f)
    IN
    /\ f.pc = "gd_exphour"
    /\ \E ok \in StoreOutcomes :
         /\ distHour' = IF ok THEN [distHour EXCEPT ![t] = Expire(@, Hour)] ELSE distHour
         /\ flow' = [flow EXCEPT ![r] =
               IF cfg.MaxTokensPerDay[t] > 0
               THEN Enter([f EXCEPT !.err = @ \/ ~ok], "gd_incday")
               ELSE TrackGlobalDistribution_Exec(f, ok)]
    /\ UNCHANGED <<now, cfg, storeFails, chainFree, powCall, cli, cooldown, counter, throttle, challenge,
                   chRate, distDay, balance, pending, nextId, hist>>

\* redis.go 226-227, TrackGlobalDistribution: INCRBYFLOAT of the daily key (the
\* first command of the batch when the hourly cap is disabled)
TrackGlobalDistribution_IncrDaily(r) ==
    LET f == flow[r]
        t == CurToken(f)
    IN
    /\ f.pc = "gd_incday"
    /\ \E ok \in StoreOutcomes :
         /\ distDay' = IF ok THEN [distDay EXCEPT ![t] = IncrBy(@, cfg.DripAmount[t])]
                       ELSE distDay
         /\ flow' = [flow EXCEPT ![r] =
               Enter([f EXCEPT !.inc = IF ok THEN @ \cup {"day"} ELSE @,
                               !.err = @ \/ ~ok], "gd_expday")]
    /\ UNCHANGED <<now, cfg, storeFails, chainFree, powCall, cli, cooldown, counter, throttle, challenge,
                   chRate, distHour, balance, pending, nextId, hist>>

\* redis.go 228-232, TrackGlobalDistribution: EXPIRE 24h of the daily key, the
\* last command of the batch, and what Exec returns
TrackGlobalDistribution_ExpireDaily(r) ==
    LET f == flow[r]
        t == CurToken(f)
    IN
    /\ f.pc = "gd_expday"
    /\ \E ok \in StoreOutcomes :
         /\ distDay' = IF ok THEN [distDay EXCEPT ![t] = Expire(@, Day)] ELSE distDay
         /\ flow' = [flow EXCEPT ![r] = TrackGlobalDistribution_Exec(f, ok)]
    /\ UNCHANGED <<now, cfg, storeFails, chainFree, powCall, cli, cooldown, counter, throttle, challenge,
                   chRate, distHour, balance, pending, nextId, hist>>

\* handlers.go 282-310 / 488-506: the live balance is read from the chain and
\* the reserve rule is applied
RequestTokens_GetBalance(r) ==
    LET f == flow[r]
        t == CurToken(f)
    IN
    /\ f.pc = "balance"
    /\ \E ok \in BOOLEAN :
         flow' = [flow EXCEPT ![r] =
            IF ~ok THEN GateFailed(f, Err(500, "Failed to check faucet balance"))
            ELSE IF BalanceProtectionTriggered(balance[t], cfg.DripAmount[t],
                                               cfg.MinBalanceProtectPct)
            THEN GateFailed(f, Err(503, "Faucet balance too low"))
            ELSE Enter(f, "transfer")]
    /\ UNCHANGED <<now, cfg, storeFails, chainFree, powCall, cli, storeVars, balance, pending, nextId, hist>>

\* what a successful TransferTokens adds to the history of the run
Transferred(f, t) ==
    [hist EXCEPT
       !.lastXfer[f.ip][t] = now,
       !.within[f.ip][t] = @ \/ (hist.lastXfer[f.ip][t] # Persist
                                  /\ now - hist.lastXfer[f.ip][t] < Hour),
       !.inCooldown[f.ip] = @ \/ Live(cooldown[f.ip]),
       !.spent = IF f.cid \in ChallengeIds THEN [@ EXCEPT ![f.cid] = @ + 1] ELSE @,
       !.submitted[f.ip] = @ + (IF ~f.both THEN 1
                                ELSE IF Len(f.txs) = 0 THEN 2 ELSE 0)]

\* mutant of RequestTokens_Transfer: a transfer that failed is tried once more
RequestTokens_TransferRetry(r) ==
    LET f == flow[r]
        t == CurToken(f)
        c == [f EXCEPT !.calls = Append(@, [token |-> t, amount |-> cfg.DripAmount[t]])]
        g == [c EXCEPT !.txs = Append(@, t)]
    IN
    /\ f.pc = "transfer"
    /\ \E ok \in BOOLEAN :
         IF ok
         THEN /\ pending' = [pending EXCEPT ![t] = @ + 1]
              /\ hist' = Transferred(f, t)
              /\ flow' = [flow EXCEPT ![r] =
                    IF f.both /\ f.ti < Len(BothTokens)
                    THEN Enter([g EXCEPT !.ti = f.ti + 1],
                               GuardEntry([g EXCEPT !.ti = f.ti + 1]))
                    ELSE Enter(g, "incr")]
         ELSE /\ pending' = pending
              /\ hist' = hist
              /\ flow' = [flow EXCEPT ![r] =
                    IF Len(f.calls) = Len(f.txs) THEN c
                    ELSE GateFailed(c, Err(500, "Failed to send tokens"))]
    /\ UNCHANGED <<now, cfg, storeFails, chainFree, powCall, cli, storeVars, balance, nextId>>

\* handlers.go 312-330 / 508-527: TransferTokens (routes.go 118-168) is called
\* with the drip amount of the current token, and submits the transfer or
\* fails; calls lists the calls the request has made. The call returns when
\* the transaction is sent (routes.go 161-167): the balance is debited when the
\* chain takes the transaction into a block
RequestTokens_Transfer(r) ==
    LET f == flow[r]
        t == CurToken(f)
        c == [f EXCEPT !.calls = Append(@, [token |-> t, amount |-> cfg.DripAmount[t]])]
        g == [c EXCEPT !.txs = Append(@, t)]
    IN
    /\ f.pc = "transfer"
    /\ \E ok \in BOOLEAN :
         IF ok
         THEN /\ pending' = [pending EXCEPT ![t] = @ + 1]
              /\ hist' = Transferred(f, t)
              /\ flow' = [flow EXCEPT ![r] =
                    IF f.both /\ f.ti < Len(BothTokens)
                    THEN Enter([g EXCEPT !.ti = f.ti + 1],
                               GuardEntry([g EXCEPT !.ti = f.ti + 1]))
                    ELSE Enter(g, "incr")]
         ELSE /\ pending' = pending
              /\ hist' = hist
              /\ flow' = [flow EXCEPT ![r] =
                    GateFailed(c, Err(500, "Failed to send tokens"))]
    /\ UNCHANGED <<now, cfg, storeFails, chainFree, powCall, cli, storeVars, balance, nextId>>

\* The chain takes a submitted transfer of token t into a block: the faucet
\* account is debited by the amount, or the transaction is reverted (always
\* when the balance is below the amount) and the balance stays. From then on
\* GetBalance, which reads block "latest" (routes.go 196), sees the result.
\* The server never waits for it (WaitForTransaction, routes.go 218-248, has
\* no caller). The fee is below a whole token and is not counted.
Chain_Include(t) ==
    /\ pending[t] > 0
    /\ pending' = [pending EXCEPT ![t] = @ - 1]
    /\ \E accepted \in (IF chainFree THEN BOOLEAN ELSE {TRUE}) :
         balance' = IF accepted /\ balance[t] >= cfg.DripAmount[t]
                    THEN [balance EXCEPT ![t] = @ - cfg.DripAmount[t]]
                    ELSE balance
    /\ UNCHANGED <<now, cfg, storeFails, chainFree, powCall, cli, storeVars, nextId, flow, hist>>

\* mutant of IncrementBy: a combined request is charged like a single one
IncrementByOne(f) == 1

\* the amount handed to IncrementIPDailyLimit: handlers.go 333 and 532
IncrementBy(f) == IF f.both THEN 2 ELSE 1

\* mutant of IncrementIPDailyLimit_IncrBy: the cooldown starts only when the
\* new count is above the maximum
IncrementIPDailyLimit_IncrByAbove(r) ==
    LET f == flow[r]
        newCount == GetInt(IncrBy(counter[f.ip], IncrementBy(f)))
    IN
    /\ f.pc = "incr"
    /\ counter' = [counter EXCEPT ![f.ip] = IncrBy(@, IncrementBy(f))]
    /\ flow' = [flow EXCEPT ![r] =
          IF newCount > cfg.MaxRequestsPerDayIP
          THEN Enter([f EXCEPT !.ti = 1], "cd_set")
          ELSE Enter([f EXCEPT !.ti = 1], "expire")]
    /\ UNCHANGED <<now, cfg, storeFails, chainFree, powCall, cli, cooldown, throttle, challenge, chRate,
                   distHour, distDay, balance, pending, nextId, hist>>

\* redis.go 99-109, IncrementIPDailyLimit: INCRBY of the daily counter; an
\* error is logged by the handler (handlers.go 333-335 / 532-534)
IncrementIPDailyLimit_IncrBy(r) ==
    LET f == flow[r]
        newCount == GetInt(IncrBy(counter[f.ip], IncrementBy(f)))
    IN
    /\ f.pc = "incr"
    /\ \E ok \in StoreOutcomes :
         IF ok
         THEN /\ counter' = [counter EXCEPT ![f.ip] = IncrBy(@, IncrementBy(f))]
              /\ flow' = [flow EXCEPT ![r] =
                    IF newCount >= cfg.MaxRequestsPerDayIP
                    THEN Enter([f EXCEPT !.ti = 1], "cd_set")
                    ELSE Enter([f EXCEPT !.ti = 1], "expire")]
         ELSE /\ counter' = counter
              /\ flow' = [flow EXCEPT ![r] = Enter([f EXCEPT !.ti = 1], "th_set")]
    /\ UNCHANGED <<now, cfg, storeFails, chainFree, powCall, cli, cooldown, throttle, challenge, chRate,
                   distHour, distDay, balance, pending, nextId, hist>>

\* a variant of the first command of the pipeline whose cooldown lasts one
\* hour
IncrementIPDailyLimit_SetShortCooldown(r) ==
    LET f == flow[r] IN
    /\ f.pc = "cd_set"
    /\ cooldown' = [cooldown EXCEPT ![f.ip] = SetEx(now + Hour, Hour)]
    /\ hist' = [hist EXCEPT !.everCooldown[f.ip] = TRUE,
                                   !.cooldownAt[f.ip] = now]
    /\ flow' = [flow EXCEPT ![r] = Enter(f, "cd_del")]
    /\ UNCHANGED <<now, cfg, storeFails, chainFree, powCall, cli, counter, throttle, challenge, chRate,
                   distHour, distDay, balance, pending, nextId>>

\* redis.go 110-117, IncrementIPDailyLimit: first command of the pipeline,
\* SET cooldown:ip <now+24h> 24h.  The DEL queued behind it runs whether the
\* SET was answered with an error or not.
IncrementIPDailyLimit_SetCooldown(r) ==
    LET f == flow[r] IN
    /\ f.pc = "cd_set"
    /\ \E ok \in StoreOutcomes :
         IF ok
         THEN /\ cooldown' = [cooldown EXCEPT ![f.ip] = SetEx(now + Day, Day)]
              /\ hist' = [hist EXCEPT !.everCooldown[f.ip] = TRUE,
                                   !.cooldownAt[f.ip] = now]
         ELSE /\ cooldown' = cooldown
              /\ hist' = hist
    /\ flow' = [flow EXCEPT ![r] = Enter(f, "cd_del")]
    /\ UNCHANGED <<now, cfg, storeFails, chainFree, powCall, cli, counter, throttle, challenge, chRate,
                   distHour, distDay, balance, pending, nextId>>

\* mutant of IncrementIPDailyLimit_DelCounter: the counter is not cleared when
\* the cooldown starts
IncrementIPDailyLimit_KeepCounter(r) ==
    LET f == flow[r] IN
    /\ f.pc = "cd_del"
    /\ counter' = counter
    /\ flow' = [flow EXCEPT ![r] = Enter(f, "th_set")]
    /\ UNCHANGED <<now, cfg, storeFails, chainFree, powCall, cli, cooldown, throttle, challenge, chRate,
                   distHour, distDay, balance, pending, nextId, hist>>

\* redis.go 115-117, IncrementIPDailyLimit: second command of the pipeline,
\* DEL ratelimit:ip:day; the error Exec returns is logged by the handler
\* (handlers.go 333-335 / 532-534)
IncrementIPDailyLimit_DelCounter(r) ==
    LET f == flow[r] IN
    /\ f.pc = "cd_del"
    /\ \E ok \in StoreOutcomes :
         counter' = IF ok THEN [counter EXCEPT ![f.ip] = Absent] ELSE counter
    /\ flow' = [flow EXCEPT ![r] = Enter(f, "th_set")]
    /\ UNCHANGED <<now, cfg, storeFails, chainFree, powCall, cli, cooldown, throttle, challenge, chRate,
                   distHour, distDay, balance, pending, nextId, hist>>

\* redis.go 120-121, IncrementIPDailyLimit: EXPIRE ratelimit:ip:day 24h
IncrementIPDailyLimit_Expire(r) ==
    LET f == flow[r] IN
    /\ f.pc = "expire"
    /\ \E ok \in StoreOutcomes :
         counter' = IF ok THEN [counter EXCEPT ![f.ip] = Expire(@, Day)] ELSE counter
    /\ flow' = [flow EXCEPT ![r] = Enter(f, "th_set")]
    /\ UNCHANGED <<now, cfg, storeFails, chainFree, powCall, cli, cooldown, throttle, challenge, chRate,
                   distHour, distDay, balance, pending, nextId, hist>>

\* the success response: handlers.go 342-358 / 543-552
Success(f) ==
    [ status |-> 200,
      error  |-> IF f.failed # <<>> THEN "Sent %d token(s) successfully, but %s failed"
                 ELSE "",
      used |-> 0, wait |-> 0, txs |-> f.txs ]

\* redis.go 150-153 SetTokenHourlyThrottle, handlers.go 337-340 / 537-541:
\* SET throttle:ip:token <unix time> 1h for the token (for each transferred
\* token of a BOTH request); an error is logged
SetTokenHourlyThrottle(r) ==
    LET f == flow[r]
        t == f.txs[f.ti]
    IN
    /\ f.pc = "th_set"
    /\ \E ok \in StoreOutcomes :
         throttle' = IF ok THEN [throttle EXCEPT ![f.ip][t] = SetEx(now, Hour)]
                     ELSE throttle
    /\ flow' = [flow EXCEPT ![r] =
          IF f.ti < Len(f.txs) THEN Enter([f EXCEPT !.ti = f.ti + 1], "th_set")
          ELSE Answer(f, Success(f))]
    /\ UNCHANGED <<now, cfg, storeFails, chainFree, powCall, cli, cooldown, counter, challenge, chRate,
                   distHour, distDay, balance, pending, nextId, hist>>

\* handleBothTokensRequest is called by RequestTokens alone (handlers.go 244),
\* for a request whose token is BOTH, and ValidateToken (handlers.go 117-121)
\* lets no such request through: no request the server receives reaches the
\* function.  The action below is a call of the function itself, used by
\* SpecBoth only; the specifications of the server do not include it.

\* handleBothTokensRequest (handlers.go 452-458) entered with a request for
\* both tokens from ip: the loop starts with STRK
HandleBothTokensRequest_Enter(r, ip) ==
    LET f == [IdleFlow EXCEPT !.ip = ip, !.token = BOTH, !.both = TRUE, !.ti = 1] IN
    /\ Takes(r)
    /\ hist.requests < MaxRequests
    /\ hist' = [hist EXCEPT !.requests = @ + 1]
    /\ flow' = [flow EXCEPT ![r] = Enter(f, GuardEntry(f))]
    /\ UNCHANGED <<now, cfg, storeFails, chainFree, powCall, cli, storeVars, balance, pending, nextId>>

(* ------------------------- CLI (root.go) ------------------------------ *)

\* the CLI command ends: RunE returns err (nil when err is FALSE)
CliExit(c, err) == [c EXCEPT !.pc = "exit", !.err = err]

\* what a POST of the API client comes back with: a 2xx answer, the status
\* 502 or 503 of a server that is starting, another error status, or no
\* answer at all (the error of the HTTP client)
CliAnswers == {"ok", "waking", "error", "failed"}

\* one call of the server the CLI makes: POST /api/v1/challenge, which answers
\* with identifier cid, or POST /api/v1/faucet with token, cid and nonce
CliCall(op, token, cid, nonce, answer) ==
    [op |-> op, token |-> token, cid |-> cid, nonce |-> nonce, answer |-> answer,
     ok |-> answer = "ok"]

\* maxRetries of the API client's GetChallenge
MaxRetries == 3

\* root.go 116-139, runRequest: the address is validated (on an invalid one
\* the command returns with token and both as the flags gave them), then the
\* token is put in upper case, the token value BOTH sets the flag both, and
\* the token is validated when both is not set
RunRequest_Validate ==
    LET token == ToUpper(cli.token)
        both == cli.both \/ token = BOTH
        c == [cli EXCEPT !.token = token, !.both = both]
    IN
    /\ cli.pc = "start"
    /\ cli' = IF ~ValidateStarknetAddress(cli.address) THEN CliExit(cli, TRUE)
              ELSE IF ~both /\ ~ValidateToken(token) THEN CliExit(c, TRUE)
              ELSE [c EXCEPT !.pc = IF cli.jsonOut THEN "request" ELSE "captcha"]
    /\ UNCHANGED <<now, cfg, storeFails, chainFree, powCall, storeVars, balance, pending, nextId, flow, hist>>

\* root.go 144-156, runRequest: unless the output is JSON the verification
\* question is asked; answer is what AskQuestionWithRetries(3) returns
RunRequest_Captcha ==
    /\ cli.pc = "captcha"
    /\ \E answer \in {"correct", "wrong", "error"} :
         cli' = IF answer = "correct" THEN [cli EXCEPT !.pc = "request"]
                ELSE CliExit(cli, TRUE)
    /\ UNCHANGED <<now, cfg, storeFails, chainFree, powCall, storeVars, balance, pending, nextId, flow, hist>>

\* root.go 158-173, runRequest: the calls of requestSingleToken that are to be
\* made, in their order
RunRequest_Dispatch ==
    /\ cli.pc = "request"
    /\ cli' = [cli EXCEPT !.pc = "challenge", !.attempt = 1,
                          !.todo = IF cli.both THEN <<STRK, ETH>> ELSE <<cli.token>>]
    /\ UNCHANGED <<now, cfg, storeFails, chainFree, powCall, storeVars, balance, pending, nextId, flow, hist>>

\* root.go 181-203, requestSingleToken step 1, with GetChallenge of the API
\* client: one turn of its loop, the POST number cli.attempt.  The server
\* answers with a new challenge; or with 502 or 503, and the client sleeps 60
\* seconds (far less than a tick, which may end meanwhile) and posts again,
\* or gives up after the third such answer; any other failure is returned
\* at once.
RequestSingleToken_GetChallenge ==
    /\ cli.pc = "challenge"
    /\ \E answer \in CliAnswers :
         LET retry == answer = "waking" /\ cli.attempt < MaxRetries
             c == [cli EXCEPT !.sent = Append(@,
                      CliCall("challenge", <<>>,
                              IF answer = "ok" THEN cli.fetched + 1 ELSE 0, 0, answer))]
         IN
         /\ cli' = IF answer = "ok"
                   THEN [c EXCEPT !.pc = "solve", !.fetched = @ + 1,
                                  !.cid = cli.fetched + 1]
                   ELSE IF retry THEN [c EXCEPT !.attempt = @ + 1]
                   ELSE CliExit(c, TRUE)
         /\ \/ UNCHANGED <<now, storeVars>>
            \/ retry /\ now < MaxTime /\ Elapse(1)
    /\ UNCHANGED <<cfg, storeFails, chainFree, powCall, balance, pending, nextId, flow, hist>>

\* root.go 205-238, requestSingleToken step 2: solver.Solve finds a nonce for
\* the challenge or gives up
RequestSingleToken_Solve ==
    /\ cli.pc = "solve"
    /\ \E ok \in BOOLEAN, nonce \in Nonces :
         cli' = IF ok THEN [cli EXCEPT !.pc = "submit", !.nonce = nonce]
                ELSE CliExit(cli, TRUE)
    /\ UNCHANGED <<now, cfg, storeFails, chainFree, powCall, storeVars, balance, pending, nextId, flow, hist>>

\* mutant of RequestSingleToken_RequestTokens: the run goes on with the next
\* token after a request that failed
RequestSingleToken_RequestTokensGoOn ==
    LET token == Head(cli.todo) IN
    /\ cli.pc = "submit"
    /\ \E answer \in CliAnswers :
         LET ok == answer = "ok"
             c == [cli EXCEPT !.sent = Append(@, CliCall("faucet", token, cli.cid,
                                                       cli.nonce, answer)),
                              !.todo = Tail(@)]
         IN cli' = IF Tail(cli.todo) # <<>> THEN [c EXCEPT !.pc = "challenge", !.attempt = 1]
                   ELSE CliExit(c, ~ok)
    /\ UNCHANGED <<now, cfg, storeFails, chainFree, powCall, storeVars, balance, pending, nextId, flow, hist>>

\* root.go 240-264 and 158-173, requestSingleToken step 3, with RequestTokens
\* of the API client (one POST, every answer other than 2xx is an error): the
\* request is sent with the token, the challenge id and the nonce; after an
\* error the command returns, after a success the next token is requested
RequestSingleToken_RequestTokens ==
    LET token == Head(cli.todo) IN
    /\ cli.pc = "submit"
    /\ \E answer \in CliAnswers :
         LET ok == answer = "ok"
             c == [cli EXCEPT !.sent = Append(@, CliCall("faucet", token, cli.cid,
                                                       cli.nonce, answer)),
                              !.todo = Tail(@)]
         IN cli' = IF ~ok THEN CliExit(c, TRUE)
                   ELSE IF Tail(cli.todo) # <<>>
                   THEN [c EXCEPT !.pc = "challenge", !.attempt = 1]
                   ELSE CliExit(c, FALSE)
    /\ UNCHANGED <<now, cfg, storeFails, chainFree, powCall, storeVars, balance, pending, nextId, flow, hist>>

(* ------------------------------ pow.go --------------------------------- *)

\* pow.go 66-81: one call gen.VerifyPoW(challenge, nonce, difficulty) on a
\* generator created with gdifficulty
VerifyPoW_Call ==
    /\ powCall.pc = "verify"
    /\ powCall' = [powCall EXCEPT
          !.pc = "verified",
          !.accepted = VerifyPoW(powCall.gdifficulty, powCall.payload,
                                 powCall.nonce, powCall.difficulty)]
    /\ UNCHANGED <<now, cfg, storeFails, chainFree, cli, storeVars, balance, pending, nextId, flow, hist>>

\* mutant of SolveChallenge_Step: the search goes on from the nonce after next
SolveChallenge_StepTwo ==
    /\ powCall.pc = "solve"
    /\ powCall.nonce < AttemptLimit
    /\ powCall' =
          IF HasPrefix(HashHex(powCall.payload, powCall.nonce),
                       Repeat("0", powCall.difficulty))
          THEN [powCall EXCEPT !.pc = "solved"]
          ELSE IF powCall.nonce + 2 > MaxNonce
          THEN [powCall EXCEPT !.pc = "failed", !.nonce = 0]
          ELSE [powCall EXCEPT !.nonce = @ + 2]
    /\ UNCHANGED <<now, cfg, storeFails, chainFree, cli, storeVars, balance, pending, nextId, flow, hist>>

\* pow.go 88-114 SolveChallenge, and Solver.Solve of the CLI: one turn of the
\* loop. The nonce starts at 0; the first nonce whose digest has the prefix is
\* returned; after the increment a nonce above 100000000 ends the search with
\* an error (and the zero nonce). strings.Repeat panics on a negative count.
\* A run is followed for AttemptLimit turns.
SolveChallenge_Step ==
    /\ powCall.pc = "solve"
    /\ powCall.nonce < AttemptLimit
    /\ powCall' =
          IF powCall.difficulty < 0 THEN [powCall EXCEPT !.pc = Panic]
          ELSE IF HasPrefix(HashHex(powCall.payload, powCall.nonce),
                            Repeat("0", powCall.difficulty))
          THEN [powCall EXCEPT !.pc = "solved"]
          ELSE IF powCall.nonce + 1 > MaxNonce
          THEN [powCall EXCEPT !.pc = "failed", !.nonce = 0]
          ELSE [powCall EXCEPT !.nonce = @ + 1]
    /\ UNCHANGED <<now, cfg, storeFails, chainFree, cli, storeVars, balance, pending, nextId, flow, hist>>

\* TestSolveChallenge: gen := NewGenerator(difficulty, 300);
\* gen.VerifyPoW(challenge, nonce, difficulty) on the nonce SolveChallenge returned
TestSolveChallenge_Verify ==
    /\ powCall.pc = "solved"
    /\ powCall' = [powCall EXCEPT
          !.pc = "checked",
          !.gdifficulty = powCall.difficulty,
          !.accepted = VerifyPoW(powCall.difficulty, powCall.payload,
                                 powCall.nonce, powCall.difficulty)]
    /\ UNCHANGED <<now, cfg, storeFails, chainFree, cli, storeVars, balance, pending, nextId, flow, hist>>

(* --------------------------- specifications --------------------------- *)

\* the request bodies clients send: every combination of well-formed fields,
\* and one body for each way of being malformed
BodiesOf(ids) ==
    [parsed : {TRUE}, address : {GoodAddress}, token : GoodTokenInputs,
     challenge_id : ids, nonce : Nonces]
    \cup [parsed : {TRUE}, address : {GoodAddress}, token : BadTokenInputs,
          challenge_id : {1}, nonce : {0}]
    \cup [parsed : {TRUE}, address : {BadAddress}, token : {STRK},
          challenge_id : {1}, nonce : {0}]
    \cup {NoBody}

\* a step of one of the flows rs, which serve requests from the addresses
\* ips, or a step of the chain; the run has at most the given number of
\* dispatch requests, with bodies from the given set, and of challenges drawn
FlowStepOn(rs, ips, bodies, requests, challenges) ==
    \/ \E t \in Tokens : Chain_Include(t)
    \/ \E r \in rs :
           \/ \E ip \in ips : GetChallenge_CheckRate(r, ip, challenges)
           \/ GetChallenge_Store(r)
           \/ GetChallenge_Increment(r)
           \/ GetChallenge_Expire(r)
           \/ \E ip \in ips, body \in bodies :
                  RequestTokens_Validate(r, ip, body, requests)
           \/ CheckIPDailyLimit_GetCooldown(r)
           \/ RequestTokens_CheckIPDailyLimit(r)
           \/ CheckTokenHourlyThrottle_Exists(r)
           \/ CheckTokenHourlyThrottle_TTL(r)
           \/ RequestTokens_GetChallenge(r)
           \/ RequestTokens_DeleteChallenge(r)
           \/ TrackGlobalDistribution_GetHourly(r)
           \/ TrackGlobalDistribution_GetDaily(r)
           \/ TrackGlobalDistribution_IncrHourly(r)
           \/ TrackGlobalDistribution_ExpireHourly(r)
           \/ TrackGlobalDistribution_IncrDaily(r)
           \/ TrackGlobalDistribution_ExpireDaily(r)
           \/ RequestTokens_GetBalance(r)
           \/ RequestTokens_Transfer(r)
           \/ IncrementIPDailyLimit_IncrBy(r)
           \/ IncrementIPDailyLimit_SetCooldown(r)
           \/ IncrementIPDailyLimit_DelCounter(r)
           \/ IncrementIPDailyLimit_Expire(r)
           \/ SetTokenHourlyThrottle(r)

\* the requests present the challenges issued first; one more challenge can
\* be issued than is presented
FlowStep(rs, ips) ==
    FlowStepOn(rs, ips, BodiesOf(1 .. MaxChallenges - 1), MaxRequests, MaxChallenges)

\* Concurrent requests of one address at one instant (the clock stands
\* still), against a store that answers every command.
Next == FlowStep(Flows, {"ip1"})

Spec == Init /\ [][Next]_vars

\* Requests served one at a time, from two addresses, while time passes.
NextSeq == FlowStep({1}, IPs) \/ Tick(MaxTime)

SpecSeq == InitSeq /\ [][NextSeq]_vars

\* the same configuration with a daily quota of three requests
ThreeADay == [BaseConfig EXCEPT !.MaxRequestsPerDayIP = 3]

InitBoth == InitWith({BaseConfig, ThreeADay}, {FALSE})

\* The function handleBothTokensRequest applied on its own: calls of the
\* function for one address, between the requests the server serves one at
\* a time, over an hour.  The server makes no such call (ValidateToken rejects
\* the token BOTH before RequestTokens can reach it); SpecBoth is the
\* specification of the function, not of the server.
NextBoth ==
    \/ FlowStep({1}, {"ip1"})
    \/ \E ip \in {"ip1"} : HandleBothTokensRequest_Enter(1, ip)
    \/ TickIdle(MaxBothTime)

SpecBoth == InitBoth /\ [][NextBoth]_vars

\* an environment with drip amount a for STRK and protection percentage pct;
\* the caps of STRK leave room for two drips
ReserveConfig(a, pct) ==
    [BaseConfig EXCEPT !.DripAmount[STRK] = a,
                       !.MinBalanceProtectPct = pct,
                       !.MaxTokensPerHour[STRK] = 2 * a,
                       !.MaxTokensPerDay[STRK] = 2 * a]

ReserveConfigs ==
    {ReserveConfig(97, 5), ReserveConfig(90, 5), ReserveConfig(93, 7),
     ReserveConfig(10, 5)}

\* STRK balances the faucet account starts with
ReserveBalances == {[InitBalance EXCEPT ![STRK] = b] : b \in {100, 21}}

InitReserve == InitCalling(ReserveConfigs, {FALSE}, ReserveBalances, {NoCall}, {TRUE})

\* Requests served one at a time, from two addresses, at one instant, for each
\* of the environments and starting balances above.
NextReserve == FlowStep({1}, IPs)

SpecReserve == InitReserve /\ [][NextReserve]_vars

\* the hourly cap of STRK leaves room for two drips
WindowConfig == [BaseConfig EXCEPT !.MaxTokensPerHour[STRK] = 20]

InitWindow == InitWith({WindowConfig}, {FALSE})

\* well-formed requests for STRK
WindowBodies ==
    [parsed : {TRUE}, address : {GoodAddress}, token : {STRK},
     challenge_id : 1 .. MaxChallenges - 1, nonce : Nonces]

\* Requests served one at a time, from two addresses, over more than an hour.
NextWindow ==
    \/ FlowStepOn({1}, IPs, WindowBodies, MaxRequests, MaxChallenges)
    \/ TickIdle(MaxWindowTime)

SpecWindow == InitWindow /\ [][NextWindow]_vars

\* Configurations in which one of the two STRK caps, or both, are 0
\* (disabled); the ETH caps are 0 in all of them.
CapConfig(maxHour, maxDay) ==
    [BaseConfig EXCEPT !.MaxTokensPerHour[STRK] = maxHour,
                       !.MaxTokensPerDay[STRK] = maxDay]

CapConfigs ==
    {CapConfig(10, 0), CapConfig(20, 0), CapConfig(0, 10), CapConfig(0, 0),
     CapConfig(20, 10)}

InitCaps == InitWith(CapConfigs, {FALSE})

\* Well-formed requests for STRK served one at a time, from two addresses,
\* over an hour; a tick can end at any point of a request.
NextCaps ==
    \/ FlowStepOn({1}, IPs, WindowBodies, MaxFailRequests, MaxChallenges - 1)
    \/ Tick(MaxCapsTime)

SpecCaps == InitCaps /\ [][NextCaps]_vars

\* Concurrent requests on balances of two drips: one transfer is within the
\* reserve rule, a second one is not.
RaceBalance == [InitBalance EXCEPT ![STRK] = 20, ![ETH] = 2]

InitRace == InitCalling({BaseConfig}, {FALSE}, {RaceBalance}, {NoCall}, {TRUE})

NextRace == FlowStepOn(Flows, {"ip1"}, WindowBodies, MaxRequests, MaxChallenges)

SpecRace == InitRace /\ [][NextRace]_vars

\* Well-formed requests for STRK of one address, served one at a time with time
\* passing between them, against a store in which each command can fail on
\* its own.
InitFail == InitWith({BaseConfig, OneADay}, {TRUE})

NextFail ==
    \/ FlowStepOn({1}, {"ip1"}, WindowBodies, MaxFailRequests, MaxChallenges - 1)
    \/ TickIdle(MaxTime)

SpecFail == InitFail /\ [][NextFail]_vars

\* Requests of one address served one at a time over a day: between two
\* requests a day passes, or a day less a tick.
InitCooldown == InitWith({BaseConfig, OneADay}, {FALSE})

NextCooldown ==
    \/ FlowStep({1}, {"ip1"})
    \/ \E d \in {Day - 1, Day} : Sleep(d, MaxCooldownTime)

SpecCooldown == InitCooldown /\ [][NextCooldown]_vars

\* The pow package on its own: calls of VerifyPoW with every combination of a
\* configured difficulty, a claimed difficulty, a challenge string and a nonce,
\* and runs of SolveChallenge followed by the verification of the answer.
Test123 == << "t", "e", "s", "t", "1", "2", "3" >>
Test456 == << "t", "e", "s", "t", "4", "5", "6" >>

PoWChallenges == {Test123, Test456, Payloads[1], Payloads[2]}

\* nonces: a negative one, zero, and the first solutions of Test123 and
\* Test456 at the difficulties 1 and 2
PoWNonces == {0 - 1, 0, 12, 55, 278}

VerifyCalls ==
    [ pc : {"verify"}, gdifficulty : 0 .. MaxDifficulty, payload : PoWChallenges,
      nonce : PoWNonces, difficulty : (0 - 1) .. (MaxDifficulty + 1),
      accepted : {FALSE} ]

\* runs of SolveChallenge at every difficulty a generator is configured with,
\* and the run of Test123 at the difficulty above, which ends at nonce 2456
SolveCalls ==
    [ pc : {"solve"}, gdifficulty : {0}, payload : {Test123, Test456, Payloads[2]},
      nonce : {0}, difficulty : 0 .. MaxDifficulty, accepted : {FALSE} ]
    \cup [ pc : {"solve"}, gdifficulty : {0}, payload : {Test123},
           nonce : {0}, difficulty : {MaxDifficulty + 1}, accepted : {FALSE} ]

InitPoW ==
    InitCalling({BaseConfig}, {FALSE}, {InitBalance}, VerifyCalls \cup SolveCalls, {FALSE})

NextPoW == VerifyPoW_Call \/ SolveChallenge_Step \/ TestSolveChallenge_Verify

SpecPoW == InitPoW /\ [][NextPoW]_vars


\* The request command of the CLI on its own: the values of --token, the flag
\* --both, the address argument and --json of one invocation.
CliTokenFlags ==
    {STRK, <<"e", "t", "h">>, <<"b", "o", "t", "h">>, BOTH, <<"B", "T", "C">>}

CliRuns ==
    [ pc : {"start"}, address : {GoodAddress, BadAddress}, token : CliTokenFlags,
      both : BOOLEAN, jsonOut : BOOLEAN, todo : {<<>>}, attempt : {0}, fetched : {0},
      cid : {0}, nonce : {0}, sent : {<<>>}, err : {FALSE} ]

InitCli ==
    /\ cli \in CliRuns
    /\ now = 0
    /\ cfg = BaseConfig
    /\ storeFails = FALSE
    /\ chainFree = FALSE
    /\ cooldown = [ip \in IPs |-> Absent]
    /\ counter = [ip \in IPs |-> Absent]
    /\ throttle = [ip \in IPs |-> [t \in Tokens |-> Absent]]
    /\ challenge = [c \in ChallengeIds |-> NoChallenge]
    /\ chRate = [ip \in IPs |-> Absent]
    /\ distHour = [t \in Tokens |-> Absent]
    /\ distDay = [t \in Tokens |-> Absent]
    /\ balance = InitBalance
    /\ pending = [t \in Tokens |-> 0]
    /\ nextId = 1
    /\ flow = [r \in Flows |-> IdleFlow]
    /\ hist = InitHist
    /\ powCall = NoCall

NextCli ==
    \/ RunRequest_Validate
    \/ RunRequest_Captcha
    \/ RunRequest_Dispatch
    \/ RequestSingleToken_GetChallenge
    \/ RequestSingleToken_Solve
    \/ RequestSingleToken_RequestTokens

SpecCli == InitCli /\ [][NextCli]_vars

(* ------------------------------- claims ------------------------------- *)

\* no challenge has been accepted twice and no token has been transferred
\* twice to an address within an hour: the run rests on no other race
NoOtherRace ==
    /\ \A c \in ChallengeIds : hist.powPass[c] <= 1
    /\ \A ip \in IPs, t \in Tokens : ~hist.within[ip][t]

\* C1: as long as an address has not entered cooldown, the total cost of its
\* requests whose transfer was submitted is at most MaxRequestsPerDayIP, for
\* every interleaving of its concurrent requests.
C1_QuotaNeverExceeded ==
    \A ip \in IPs :
        (NoOtherRace /\ ~hist.everCooldown[ip])
            => hist.submitted[ip] <= cfg.MaxRequestsPerDayIP

\* C2: of the requests that present one challenge id, at most one passes the
\* PoW gate and submits a transfer, for every interleaving.
C2_ChallengeSpentOnce ==
    \A c \in ChallengeIds : hist.spent[c] <= 1

\* the elements of a sequence
Range(seq) == {seq[i] : i \in DOMAIN seq}

\* a request that arrived after its challenge id had been verified and deleted
Replayed(r) == flow[r].stale

\* C3, as the code has it: a request that presents a challenge id already
\* verified and deleted never passes the PoW gate and submits no transfer; when
\* it reaches the challenge lookup (the daily-limit and throttle gates come
\* first and may reject it with 429) the answer is 400 "Invalid or expired
\* challenge".
C3_ReplayNeverAccepted ==
    \A r \in Flows :
        Replayed(r) =>
            /\ \/ GateOf(flow[r].pc) \in {"daily", "throttle"}
               \/ flow[r].pc \in {"ch_get", "done"}
            /\ "pow" \notin Range(flow[r].trace)
            /\ flow[r].txs = <<>> /\ flow[r].resp.txs = <<>>
            /\ (flow[r].pc = "done" => flow[r].resp.status >= 400)
            /\ (flow[r].pc = "done" /\ flow[r].trace = <<"daily", "throttle">>)
                  => /\ flow[r].resp.status = 400
                     /\ flow[r].resp.error = "Invalid or expired challenge"

\* C3 witness: a replayed request has reached the challenge lookup and has
\* been answered "Invalid or expired challenge"
C3_ReplayRejectedAtLookup ==
    \E r \in Flows :
        /\ Replayed(r) /\ flow[r].pc = "done"
        /\ flow[r].trace = <<"daily", "throttle">>
        /\ flow[r].resp.error = "Invalid or expired challenge"

\* C3 as stated: every request that presents a challenge id already verified
\* and deleted is answered "Invalid or expired challenge".
C3_ReplayAlwaysInvalidChallenge ==
    \A r \in Flows :
        (Replayed(r) /\ flow[r].pc = "done")
            => flow[r].resp.error = "Invalid or expired challenge"

\* C4: the hourly and daily totals TrackGlobalDistribution records for a token
\* never exceed the caps that are enabled, for every interleaving.
C4_CapsNeverExceeded ==
    \A t \in Tokens :
        (\A c \in ChallengeIds : hist.powPass[c] <= 1) =>
            /\ cfg.MaxTokensPerHour[t] > 0
                  => GetInt(distHour[t]) <= cfg.MaxTokensPerHour[t]
            /\ cfg.MaxTokensPerDay[t] > 0
                  => GetInt(distDay[t]) <= cfg.MaxTokensPerDay[t]

\* the end time of the cooldown each IP is in, 0 for none: a cooldown key whose
\* end time has passed counts as no key, which is how CheckIPDailyLimit and
\* GetIPDailyQuota read it
CooldownInForce ==
    [ip \in IPs |-> IF Live(cooldown[ip]) /\ now < cooldown[ip].val
                    THEN cooldown[ip].val ELSE 0]

\* the quota state of the store as the requests read it
QuotaState == <<CooldownInForce, counter, throttle, challenge, chRate, distHour, distDay>>

\* C5: a single-token request whose TransferTokens fails answers 500 in that
\* step with the daily counter, the cooldown and the throttle markers
\* untouched, and these keys are written only by a request that holds a
\* transaction hash.
C5_NoCommitWithoutTransfer ==
    [][ /\ \A ip \in IPs :
             ( /\ now' = now
               /\ \/ counter'[ip] # counter[ip]
                  \/ CooldownInForce'[ip] # CooldownInForce[ip]
                  \/ throttle'[ip] # throttle[ip] )
                => \E r \in Flows : /\ flow'[r] # flow[r]
                                    /\ flow[r].ip = ip
                                    /\ Len(flow[r].txs) > 0
        /\ \A r \in Flows :
             ( /\ flow[r].pc = "transfer" /\ ~flow[r].both
               /\ flow'[r] # flow[r] /\ pending' = pending )
                => /\ flow'[r].pc = "done"
                   /\ flow'[r].resp.status = 500
                   /\ flow'[r].resp.txs = <<>>
                   /\ UNCHANGED <<counter, cooldown, throttle>>
      ]_vars

\* C5 witness: a single-token request has passed the reserve check and has
\* been answered "Failed to send tokens"
C5_TransferFailed ==
    \E r \in Flows :
        /\ flow[r].pc = "done" /\ ~flow[r].both
        /\ "reserve" \in Range(flow[r].trace)
        /\ flow[r].resp.error = "Failed to send tokens"

\* C6: no transfer is submitted for an address while its cooldown is set,
\* requests in flight when the cooldown was set included.
C6_NoDispatchInCooldown ==
    \A ip \in IPs : NoOtherRace => ~hist.inCooldown[ip]

\* the gates of RequestTokens in the order the claim gives them
GateOrder == <<"daily", "throttle", "pow", "cap", "reserve", "transfer", "commit">>

Rank(g) == CHOOSE i \in DOMAIN GateOrder : GateOrder[i] = g

\* the flow is inside RequestTokens
InRequest(f) == f.pc \notin {"idle", "done", "cr_store", "cr_incr", "cr_expire"}

\* the gates that come before the position of f; the distribution-cap gate
\* has nothing to check for a token whose two caps are disabled
GatesBefore(f) ==
    {GateOrder[i] : i \in 1 .. Rank(GateOf(f.pc)) - 1}
      \ (IF cfg.MaxTokensPerHour[f.token] = 0 /\ cfg.MaxTokensPerDay[f.token] = 0
         THEN {"cap"} ELSE {})

\* the trace lists gates in the order of GateOrder
InGateOrder(trace) ==
    \A i, j \in DOMAIN trace : i < j => Rank(trace[i]) < Rank(trace[j])

\* C7: a request is at a gate only after it has passed every earlier gate, in
\* the fixed order; the step in which a gate fails answers the request and
\* touches neither the store nor the balance, an answered request takes no
\* further step, and a transfer is made only by a request that has passed the
\* daily-limit, throttle, PoW, cap and reserve gates.
C7_GatesInOrder ==
    [][ \A r \in Flows :
          flow'[r] # flow[r] =>
            /\ InRequest(flow'[r])
                  => /\ InGateOrder(flow'[r].trace)
                     /\ Range(flow'[r].trace) = GatesBefore(flow'[r])
            /\ ( /\ InRequest(flow[r]) /\ flow'[r].pc = "done"
                 /\ flow'[r].resp.status >= 400 )
                  => /\ UNCHANGED <<storeVars, balance, pending>>
                     /\ flow'[r].resp.txs = <<>>
            /\ flow[r].pc = "done" => flow'[r].trace = <<>>
            /\ pending' # pending
                  => /\ flow[r].pc = "transfer"
                     /\ Range(flow[r].trace) = GatesBefore(flow[r])
      ]_vars

\* C7 witness: a STRK request has been rejected at the reserve gate after
\* passing the four gates before it, and an ETH request (no cap enabled) has
\* passed every gate
C7_RejectedLate ==
    \E r, q \in Flows :
        /\ flow[r].pc = "done" /\ flow[r].resp.status >= 400
        /\ flow[r].trace = <<"daily", "throttle", "pow", "cap">>
        /\ flow[q].pc = "done" /\ flow[q].resp.status = 200
        /\ flow[q].trace = <<"daily", "throttle", "pow", "reserve", "transfer">>

\* C8: no token is transferred twice to one address within an hour, for every
\* interleaving of requests that each carry a challenge of their own.
C8_OneDispatchPerHour ==
    \A ip \in IPs, t \in Tokens :
        (\A c \in ChallengeIds : hist.powPass[c] <= 1) => ~hist.within[ip][t]

\* C9: the throttle gate decides on the marker of the requested token alone.
\* A request whose own marker is absent passes the gate, whatever the marker
\* of the other token; a request whose own marker is present is rejected with
\* 429 and the time the marker has left, which is positive.  A marker is set
\* for one hour by a successful dispatch of its token, which leaves the marker
\* of the other token as it was.
C9_ThrottlePerToken ==
    [][ /\ \A ip \in IPs, t \in Tokens :
              Live(throttle'[ip][t]) => hist'.lastXfer[ip][t] # Persist
        /\ \A r \in Flows, t \in Tokens :
              ( /\ flow[r].pc = "th_set" /\ ~flow[r].both
                /\ flow'[r] # flow[r] /\ t # flow[r].token )
                 => /\ throttle'[flow[r].ip][flow[r].token].exp = now + Hour
                    /\ throttle'[flow[r].ip][t] = throttle[flow[r].ip][t]
        /\ \A r \in Flows :
          ( /\ GateOf(flow[r].pc) = "throttle" /\ ~flow[r].both
            /\ flow'[r] # flow[r] ) =>
            LET f == flow[r]
                own == throttle[f.ip][f.token]
            IN
            /\ (f.pc = "th_exists" /\ ~Live(own)) => flow'[r].pc = "ch_get"
            /\ (f.pc = "th_exists" /\ Live(own)) => flow'[r].pc = "th_ttl"
            /\ (f.pc = "th_ttl" /\ Live(own)) =>
                    /\ flow'[r].pc = "th_quota"
                    /\ flow'[r].wait = own.exp - now
                    /\ flow'[r].wait > 0
                    /\ flow'[r].wait <= Hour
            /\ f.pc \in {"th_quota", "th_quota2"} =>
                 \/ f.pc = "th_quota" /\ flow'[r].pc = "th_quota2"
                 \/ /\ flow'[r].pc = "done"
                    /\ flow'[r].resp.status = 429
                    /\ flow'[r].resp.error = "hourly throttle active"
                    /\ flow'[r].resp.wait = f.wait
      ]_vars

\* C9 witness: STRK has been transferred to an address and its marker is set;
\* a request for ETH from that address, made within the hour, has passed the
\* throttle gate
C9_OtherTokenPasses ==
    \E r \in Flows, ip \in IPs :
        /\ hist.lastXfer[ip][STRK] # Persist /\ now - hist.lastXfer[ip][STRK] < Hour
        /\ Live(throttle[ip][STRK]) /\ ~Live(throttle[ip][ETH])
        /\ flow[r].ip = ip /\ flow[r].token = ETH /\ flow[r].pc = "ch_get"

\* a call of handleBothTokensRequest that has transferred STRK and failed on ETH
PartialBoth(f) == f.both /\ f.txs = <<STRK>> /\ f.failed = ETH

\* C10: when handleBothTokensRequest has transferred STRK and failed on ETH,
\* the daily counter of the address is charged 1 unit, the ETH marker is left
\* as it was, and the answer is a success that lists the STRK transaction
\* alone, given with the STRK marker set.
C10_PartialBothChargesOne ==
    [][ \A r \in Flows :
          (PartialBoth(flow[r]) /\ flow'[r] # flow[r]) =>
            /\ flow[r].pc = "incr"
                  => /\ counter'[flow[r].ip] # counter[flow[r].ip]
                     /\ GetInt(counter'[flow[r].ip]) = GetInt(counter[flow[r].ip]) + 1
            /\ throttle'[flow[r].ip][ETH] = throttle[flow[r].ip][ETH]
            /\ flow'[r].pc = "done"
                  => /\ flow'[r].resp.status = 200
                     /\ flow'[r].resp.txs = <<STRK>>
                     /\ Live(throttle'[flow[r].ip][STRK])
      ]_vars

\* what holds of a partial handleBothTokensRequest apart from the charge: the
\* ETH marker is left as it was and the answer is a success that lists the
\* STRK transaction alone, given with the STRK marker set
PartialBothRest ==
    [][ \A r \in Flows :
          (PartialBoth(flow[r]) /\ flow'[r] # flow[r]) =>
            /\ throttle'[flow[r].ip][ETH] = throttle[flow[r].ip][ETH]
            /\ flow'[r].pc = "done"
                  => /\ flow'[r].resp.status = 200
                     /\ flow'[r].resp.txs = <<STRK>>
                     /\ Live(throttle'[flow[r].ip][STRK])
      ]_vars

\* C11: a request whose token is BOTH, in any letter case, is not rejected by
\* the structural validation.
C11_BothPassesValidation ==
    \A r \in Flows :
        (flow[r].pc = "done" /\ flow[r].token = BOTH)
            => ~ ( /\ flow[r].resp.status = 400
                   /\ flow[r].resp.error = "invalid token: must be ETH or STRK" )

\* what holds of the validation apart from BOTH: a request is past the
\* validation only with token ETH or STRK, and a token that is none of ETH,
\* STRK, BOTH is answered 400 in a step that leaves the store as it was
OtherTokensRejected ==
    [][ \A r \in Flows :
          flow'[r] # flow[r] =>
            /\ InRequest(flow'[r]) /\ ~flow'[r].both => flow'[r].token \in Tokens
            /\ ( /\ flow'[r].pc = "done"
                 /\ flow'[r].token \notin {<<>>, ETH, STRK, BOTH} )
                  => /\ flow'[r].resp.status = 400
                     /\ flow'[r].trace = <<>>
                     /\ UNCHANGED <<storeVars, balance, pending>>
      ]_vars

BothChargedAfterOne ==
    \E r \in Flows :
        /\ flow[r].both /\ ~Free(r)
        /\ flow[r].txs = BothTokens
        /\ GetInt(counter["ip1"]) = 3

\* C13: an address never has a live cooldown key and a live daily counter key
\* together. The state between the two commands of the pipeline that sets the
\* cooldown and deletes the counter is left out, so the property does not rest
\* on how the pipeline is delivered.
C13_CooldownExcludesCounter ==
    \A ip \in IPs :
        (\A r \in Flows : ~(flow[r].pc = "cd_del" /\ flow[r].ip = ip))
            => ~(Live(cooldown[ip]) /\ Live(counter[ip]))

\* the message of the answer given to an address in cooldown
InCooldownError == "Daily limit reached. In 24-hour cooldown"

\* C14: when requests are served one at a time and the successful dispatches
\* of an address have used its whole daily quota, the address is in a cooldown
\* that ends 24 hours after the commit that used the last unit; every request
\* that then reaches the daily-limit gate, for any token, is answered 429 with
\* the time left of that cooldown; and only a commit sets the cooldown, a
\* rejected request never moves its end.
C14_CooldownAfterQuota ==
    [][ /\ \A ip \in IPs :
             /\ (\A r \in Flows : Free(r)') /\ hist'.submitted[ip] = cfg.MaxRequestsPerDayIP
                  => /\ Live(cooldown[ip])' /\ ~Live(counter[ip])'
                     /\ cooldown'[ip].val = cooldown'[ip].exp
             /\ cooldown'[ip] # cooldown[ip]
                  => \/ /\ \E r \in Flows : flow[r].pc = "cd_set" /\ flow[r].ip = ip
                        /\ cooldown'[ip] = [val |-> now + Day, exp |-> now + Day]
                        /\ hist.submitted[ip] = cfg.MaxRequestsPerDayIP
                     \/ /\ now' > now /\ cooldown[ip].exp <= now'
                        /\ cooldown'[ip] = Absent
        /\ \A r \in Flows :
             ( /\ flow[r].pc = "dl_cooldown" /\ flow'[r] # flow[r]
               /\ Live(cooldown[flow[r].ip]) )
                 => /\ flow'[r].pc = "done"
                    /\ flow'[r].resp.status = 429
                    /\ flow'[r].resp.error = InCooldownError
                    /\ flow'[r].resp.wait = cooldown[flow[r].ip].val - now
                    /\ UNCHANGED <<storeVars, balance, pending>>
      ]_vars

\* an address that used its whole quota at time 0 has asked again one tick
\* later, for the other token, and was answered with the time left
C14_RejectedInCooldown ==
    \E r \in Flows, ip \in IPs :
        /\ hist.submitted[ip] = cfg.MaxRequestsPerDayIP
        /\ hist.lastXfer[ip][STRK] = 0 /\ hist.lastXfer[ip][ETH] = 0
        /\ now = 1 /\ cooldown[ip] = [val |-> Day, exp |-> Day]
        /\ flow[r].pc = "done" /\ flow[r].token = ETH
        /\ flow[r].resp.error = InCooldownError
        /\ flow[r].resp.wait = Day - 1
        /\ hist.requests = 3

\* the amount of token t whose transfer was submitted since the start, in a
\* run in which the chain takes every transfer
SubmittedAmount(t) ==
    hist.startBalance[t] - balance[t] + pending[t] * cfg.DripAmount[t]

\* C15: a request that ends without a transfer leaves the distribution totals
\* as they were. Requests are served one at a time and less than a day passes,
\* so whenever no request is in flight the daily total of a capped token is
\* the amount whose transfer was submitted since the start.
C15_FailureCommitsNothing ==
    (\A r \in Flows : Free(r)) =>
        \A t \in Tokens :
            cfg.MaxTokensPerDay[t] > 0
                => GetInt(distDay[t]) = SubmittedAmount(t)

\* the flow has been answered that the reserve protection was triggered
ReserveRejected(f) ==
    f.pc = "done" /\ f.resp.status = 503 /\ f.resp.error = "Faucet balance too low"

\* the reserve rule in exact arithmetic: b - a < b * p / 100
BelowReserve(b, a, p) == (b - a) * 100 < b * p

\* C16: when the balance b has been read, a dispatch of the drip amount a is
\* rejected by the reserve gate exactly when b - a < b * p / 100 for the
\* protection percentage p, and goes on to the transfer otherwise; the step
\* of a rejection submits no transfer.
C16_ReserveRuleExact ==
    [][ \A r \in Flows :
          ( /\ flow[r].pc = "balance" /\ flow'[r] # flow[r]
            /\ flow'[r].resp.error # "Failed to check faucet balance" ) =>
            LET t == CurToken(flow[r]) IN
            /\ ReserveRejected(flow'[r])
                 <=> BelowReserve(balance[t], cfg.DripAmount[t], cfg.MinBalanceProtectPct)
            /\ ~ReserveRejected(flow'[r]) => flow'[r].pc = "transfer"
            /\ UNCHANGED <<balance, pending>> /\ hist'.submitted = hist.submitted
      ]_vars

\* what holds of the reserve gate: it decides as the float64 computation of
\* the handler does, which is the exact rule for a protection of 5 percent (so
\* for balance 100 the amount 97 is rejected and the amount 90 is allowed),
\* and the step of a rejection submits no transfer
ReserveRuleAtFivePercent ==
    [][ \A r \in Flows :
          ( /\ flow[r].pc = "balance" /\ flow'[r] # flow[r]
            /\ flow'[r].resp.error # "Failed to check faucet balance" ) =>
            LET t == CurToken(flow[r]) IN
            /\ ReserveRejected(flow'[r])
                 <=> BalanceProtectionTriggered(balance[t], cfg.DripAmount[t],
                                                cfg.MinBalanceProtectPct)
            /\ cfg.MinBalanceProtectPct = 5
                 => ( ReserveRejected(flow'[r])
                        <=> BelowReserve(balance[t], cfg.DripAmount[t], 5) )
            /\ balance[t] = 100 /\ cfg.DripAmount[t] = 97 /\ cfg.MinBalanceProtectPct = 5
                 => ReserveRejected(flow'[r])
            /\ balance[t] = 100 /\ cfg.DripAmount[t] = 90 /\ cfg.MinBalanceProtectPct = 5
                 => flow'[r].pc = "transfer"
            /\ ~ReserveRejected(flow'[r]) => flow'[r].pc = "transfer"
            /\ UNCHANGED <<balance, pending>> /\ hist'.submitted = hist.submitted
      ]_vars

\* both cases of the scenario have happened: 97 of 100 was rejected, or 90 of
\* 100 was transferred
ScenarioD ==
    \E r \in Flows :
        /\ hist.startBalance[STRK] = 100 /\ cfg.MinBalanceProtectPct = 5
        /\ flow[r].token = STRK
        /\ \/ cfg.DripAmount[STRK] = 97 /\ ReserveRejected(flow[r])
           \/ cfg.DripAmount[STRK] = 90 /\ balance[STRK] = 10

\* C17: the balance of a token is never below MinBalanceProtectPct percent of
\* the balance the faucet started with.
C17_InitialReserveKept ==
    \A t \in Tokens :
        balance[t] * 100 >= hist.startBalance[t] * cfg.MinBalanceProtectPct

\* how many of the times in the sequence lie within the hour that ends now
InTrailingHour(times) ==
    Cardinality({i \in DOMAIN times : now - times[i] <= Hour})

\* C18: the hourly total of a token holds no amount that was reserved more
\* than one hour ago: it is at most the drip amount times the number of
\* reservations of the trailing hour.
C18_HourlyTotalIsTrailingHour ==
    \A t \in Tokens :
        GetInt(distHour[t]) <= cfg.DripAmount[t] * InTrailingHour(hist.reservedHour[t])

\* C19: GetChallenge answers 429 only if the challenges issued within the
\* trailing hour to the address that asks (an answered flow keeps no address:
\* to some address) have reached MaxChallengesPerHour.
C19_RefusedOnTrailingHour ==
    [][ \A r \in Flows :
          ( /\ Free(r) /\ flow'[r] # flow[r]
            /\ flow'[r].pc = "done"
            /\ flow'[r].resp.status = 429
            /\ flow'[r].resp.error = "Too many challenge requests" )
              => \E ip \in IPs :
                    InTrailingHour(hist.issuedAt[ip]) >= cfg.MaxChallengesPerHour
      ]_vars

\* C20: the challenges issued to an address within the trailing hour never
\* number more than MaxChallengesPerHour.
C20_ChallengesPerHourBounded ==
    \A ip \in IPs :
        InTrailingHour(hist.issuedAt[ip]) <= cfg.MaxChallengesPerHour

\* the positions of a request that come before the PoW gate is passed
BeforePoW ==
    {"dl_cooldown", "dl_cooldel", "dl_counter", "dl_quota", "dl_quota2",
     "th_exists", "th_ttl", "th_quota", "th_quota2", "ch_get"}

\* C21, as the code has it: a request that presents a challenge issued, never
\* redeemed and gone from the store after ChallengeTTL is never past the
\* challenge lookup; none of its steps changes the counter, the cooldown in
\* force, the throttle markers, the distribution totals or the balance (at
\* most the daily-limit check removes a cooldown key whose end time has
\* passed); it is answered
\* with an error and no transfer; and when it reaches the lookup (the
\* daily-limit and throttle gates come first and may answer 429) the answer
\* is 400 "Invalid or expired challenge", whatever the nonce.
C21_ExpiredNeverAccepted ==
    [][\A r \in Flows :
          (InRequest(flow[r]) /\ Lapsed(flow[r].cid) /\ flow'[r] # flow[r]) =>
              /\ flow[r].pc \in BeforePoW
              /\ flow'[r].pc \in BeforePoW \cup {"done"}
              /\ UNCHANGED <<QuotaState, balance, pending>>
              /\ hist'.lastXfer = hist.lastXfer /\ hist'.spent = hist.spent
              /\ flow'[r].pc = "done"
                    => /\ flow'[r].resp.status \in {400, 429}
                       /\ flow'[r].resp.txs = <<>>
              /\ flow[r].pc = "ch_get"
                    => /\ flow'[r].pc = "done"
                       /\ flow'[r].resp.status = 400
                       /\ flow'[r].resp.error = "Invalid or expired challenge"]_vars

\* C21 witness: a request that arrived with an expired challenge and a nonce
\* that solves it has been answered "Invalid or expired challenge" at the lookup
C21_ExpiredRejectedAtLookup ==
    \E r \in Flows :
        /\ flow[r].late /\ flow[r].pc = "done" /\ now >= cfg.ChallengeTTL
        /\ flow[r].trace = <<"daily", "throttle">>
        /\ flow[r].resp.status = 400
        /\ flow[r].resp.error = "Invalid or expired challenge"

\* C21 as stated: every request that presents an expired, never redeemed
\* challenge with a correct nonce is answered "Invalid or expired challenge".
C21_ExpiredAlwaysInvalidChallenge ==
    \A r \in Flows :
        (flow[r].late /\ flow[r].pc = "done")
            => flow[r].resp.error = "Invalid or expired challenge"

\* the number of '0' characters a string starts with
LeadingZeros(s) ==
    CHOOSE k \in 0 .. Len(s) :
        /\ \A i \in 1 .. k : s[i] = "0"
        /\ k = Len(s) \/ s[k + 1] # "0"

\* C22: for a generator whose difficulty is a count (>= 0), every challenge
\* string, nonce and claimed difficulty d, VerifyPoW returns true exactly when
\* d equals the generator's difficulty and the hex SHA-256 digest of the
\* challenge followed by the decimal nonce starts with at least d '0'
\* characters; so a mismatched d is refused whatever the digest.
C22_VerifyPoWExact ==
    powCall.pc = "verified" =>
        (powCall.accepted = TRUE
            <=> /\ powCall.difficulty = powCall.gdifficulty
                /\ LeadingZeros(HashHex(powCall.payload, powCall.nonce))
                      >= powCall.difficulty)

\* C22 witness: VerifyPoW has refused a claimed difficulty below the
\* generator's although the digest starts with that many zeros
C22_MismatchRefused ==
    /\ powCall.pc = "verified" /\ ~powCall.accepted
    /\ powCall.difficulty >= 1 /\ powCall.difficulty < powCall.gdifficulty
    /\ LeadingZeros(HashHex(powCall.payload, powCall.nonce)) >= powCall.gdifficulty

\* C23: a run of SolveChallenge that returns a nonce returns the smallest
\* nonce >= 0 whose digest starts with d zeros, and a generator configured
\* with d accepts it; no run gives up while a solution lies within the
\* attempt limit.
C23_SolveThenVerify ==
    /\ powCall.pc = "solved" =>
          /\ powCall.nonce >= 0
          /\ LeadingZeros(HashHex(powCall.payload, powCall.nonce)) >= powCall.difficulty
          /\ \A m \in 0 .. (powCall.nonce - 1) :
                LeadingZeros(HashHex(powCall.payload, m)) < powCall.difficulty
    /\ powCall.pc = "checked" =>
          /\ powCall.accepted = TRUE
          /\ LeadingZeros(HashHex(powCall.payload, powCall.nonce)) >= powCall.difficulty
    /\ powCall.pc # "failed"

\* C23 witness: SolveChallenge has returned 2456 for "test123" at difficulty 3
\* and VerifyPoW has accepted it
C23_Test123Solved ==
    /\ powCall.pc = "checked" /\ powCall.accepted = TRUE
    /\ powCall.payload = Test123 /\ powCall.difficulty = 3 /\ powCall.nonce = 2456

\* C24, as the code has it: in a sequential execution, no step of a dispatch
\* request up to the PoW check changes a counter, the cooldown in force, a
\* throttle marker, a distribution total, a challenge record or the balance;
\* the one write on this path is the daily-limit check removing a cooldown
\* key whose end time has passed. So a request answered 400 (malformed body
\* or address, invalid token, unknown or expired challenge, wrong nonce) has
\* changed no quota state; and after a wrong nonce the challenge record is
\* still in the store with its payload.
C24_ClientErrorMutatesNothing ==
    [][\A r \in Flows :
          flow'[r] # flow[r] =>
              /\ flow[r].pc \in BeforePoW =>
                    /\ UNCHANGED <<QuotaState, balance, pending>>
                    /\ cooldown' # cooldown =>
                          /\ flow[r].pc = "dl_cooldel"
                          /\ now >= cooldown[flow[r].ip].val
                          /\ cooldown' = [cooldown EXCEPT ![flow[r].ip] = Absent]
              /\ (flow'[r].pc = "done" /\ flow'[r].resp.status = 400) =>
                    /\ UNCHANGED <<storeVars, balance, pending>>
                    /\ hist'.spent = hist.spent /\ hist'.consumed = hist.consumed
                    /\ hist'.submitted = hist.submitted
              /\ (flow'[r].pc = "done"
                  /\ flow'[r].resp.error = "Invalid proof of work solution") =>
                    /\ Live(challenge'[flow[r].cid])
                    /\ challenge'[flow[r].cid].val = PayloadOf(flow[r].cid)]_vars

\* C24 as stated: a request answered 400 has written to no key of the store.
C24_RejectedLeftEveryKey ==
    \A r \in Flows :
        (flow[r].pc = "done" /\ flow[r].resp.status = 400) => ~flow[r].swept

\* C24 witness: a challenge refused once for a wrong nonce has later been
\* redeemed: verified, deleted and paid out on
C24_RedeemedAfterWrongNonce ==
    \E c \in hist.wrongNonce :
        c \in hist.consumed /\ hist.powPass[c] = 1 /\ hist.spent[c] = 1

\* the flow is at a guard that refuses its current token, and no transfer of
\* the request has succeeded: the hourly or the daily cap would be exceeded,
\* or the reserve protection is triggered on the balance
GuardRefuses(f) ==
    LET t == CurToken(f) IN
    /\ f.txs = <<>>
    /\ \/ /\ f.pc = "gd_hour"
          /\ GetInt(distHour[t]) + cfg.DripAmount[t] > cfg.MaxTokensPerHour[t]
       \/ /\ f.pc = "gd_day"
          /\ GetInt(distDay[t]) + cfg.DripAmount[t] > cfg.MaxTokensPerDay[t]
       \/ /\ f.pc = "balance"
          /\ BalanceProtectionTriggered(balance[t], cfg.DripAmount[t],
                                        cfg.MinBalanceProtectPct)

\* the answers of a request stopped by a failed read rather than by a guard
ReadErrors == {"Failed to check faucet balance", "Failed to process request"}

\* C25: a dispatch request, single or combined, that the distribution cap or
\* the reserve protection stops before any of its transfers has succeeded is
\* answered 503 in that step.
C25_GuardStopAnswers503 ==
    [][\A r \in Flows :
          (GuardRefuses(flow[r]) /\ flow'[r] # flow[r]
           /\ flow'[r].resp.error \notin ReadErrors) =>
              /\ flow'[r].pc = "done"
              /\ flow'[r].resp.status = 503]_vars

\* what holds of C25: the single-token requests of RequestTokens stopped by a
\* guard are answered 503
GuardStopAnswers503Single ==
    [][\A r \in Flows :
          (GuardRefuses(flow[r]) /\ ~flow[r].both /\ flow'[r] # flow[r]
           /\ flow'[r].resp.error \notin ReadErrors) =>
              /\ flow'[r].pc = "done"
              /\ flow'[r].resp.status = 503]_vars

\* the address has had no transfer since the last midnight UTC
NoneSinceMidnight(ip) == \A t \in Tokens : hist.lastXfer[ip][t] < Midnight

\* C26: a request made after midnight UTC by an address that has consumed
\* nothing since then finds its daily quota unused when CheckIPDailyLimit
\* reads it: no cooldown in force and a counter of zero.
C26_CounterResetsAtMidnight ==
    \A r \in Flows :
        ( /\ flow[r].pc \in {"dl_cooldown", "dl_counter"}
          /\ now >= Midnight /\ NoneSinceMidnight(flow[r].ip) )
        => /\ GetInt(counter[flow[r].ip]) = 0
           /\ ~(Live(cooldown[flow[r].ip]) /\ now < cooldown[flow[r].ip].val)

\* the positions of a flow inside TrackGlobalDistribution
InsideTrack ==
    {"gd_hour", "gd_day", "gd_inchour", "gd_exphour", "gd_incday", "gd_expday"}

\* C27: a cap of 0 disables its window. For a token whose two caps are 0
\* TrackGlobalDistribution refuses nothing and no ledger key of the token is
\* created or changed; with one cap 0, the total of that window is never read
\* or changed, the refusals come from the other window alone and an admitted
\* amount is added to the other window's total, once, by the INCRBYFLOAT of
\* the pipeline; the EXPIRE behind it changes no total, and the call returns
\* true whether the key it names is still there or not.
C27_ZeroCapIsUnlimited ==
    [][\A t \in Tokens :
          /\ cfg.MaxTokensPerHour[t] = 0 =>
                /\ distHour'[t] = distHour[t] /\ distHour[t] = Absent
                /\ \A r \in Flows :
                      flow'[r].pc \in {"gd_hour", "gd_inchour", "gd_exphour"}
                          => CurToken(flow'[r]) # t
          /\ cfg.MaxTokensPerDay[t] = 0 =>
                /\ distDay'[t] = distDay[t] /\ distDay[t] = Absent
                /\ \A r \in Flows :
                      flow'[r].pc \in {"gd_day", "gd_incday", "gd_expday"}
                          => CurToken(flow'[r]) # t
          /\ (cfg.MaxTokensPerHour[t] = 0 /\ cfg.MaxTokensPerDay[t] = 0) =>
                \A r \in Flows :
                    (flow'[r].pc = "done" /\ flow'[r].token = t) =>
                        flow'[r].resp.error # "Faucet has reached its distribution limit"
          /\ \A r \in Flows :
                (flow[r].pc \in InsideTrack
                 /\ CurToken(flow[r]) = t /\ flow'[r] # flow[r]) =>
                    /\ (flow[r].pc = "gd_day" /\ flow'[r].pc = "done") =>
                          GetInt(distDay[t]) + cfg.DripAmount[t] > cfg.MaxTokensPerDay[t]
                    /\ (flow[r].pc = "gd_hour" /\ flow'[r].pc = "done") =>
                          GetInt(distHour[t]) + cfg.DripAmount[t] > cfg.MaxTokensPerHour[t]
                    /\ (flow[r].pc = "gd_incday" /\ cfg.MaxTokensPerHour[t] = 0) =>
                          /\ flow'[r].pc = "gd_expday"
                          /\ GetInt(distDay'[t]) = GetInt(distDay[t]) + cfg.DripAmount[t]
                    /\ (flow[r].pc = "gd_expday" /\ cfg.MaxTokensPerHour[t] = 0) =>
                          /\ flow'[r].pc = "balance"
                          /\ GetInt(distDay'[t]) = GetInt(distDay[t])
                    /\ (flow[r].pc = "gd_inchour" /\ cfg.MaxTokensPerDay[t] = 0) =>
                          /\ flow'[r].pc = "gd_exphour"
                          /\ GetInt(distHour'[t]) = GetInt(distHour[t]) + cfg.DripAmount[t]
                    /\ (flow[r].pc = "gd_exphour" /\ cfg.MaxTokensPerDay[t] = 0) =>
                          /\ flow'[r].pc = "balance"
                          /\ GetInt(distHour'[t]) = GetInt(distHour[t])]_vars

\* C27 witness: with the hourly STRK cap 0 and the daily cap 10, one STRK
\* dispatch has been made, the daily total is 10 and no hourly key exists, and
\* the next STRK request is refused by the daily cap
C27_OnlyDailyWindowCounts ==
    \E r \in Flows :
        /\ cfg.MaxTokensPerHour[STRK] = 0 /\ cfg.MaxTokensPerDay[STRK] > 0
        /\ GetInt(distDay[STRK]) = cfg.DripAmount[STRK] /\ distHour[STRK] = Absent
        /\ flow[r].pc = "done" /\ flow[r].token = STRK
        /\ flow[r].resp.error = "Faucet has reached its distribution limit"

\* with the daily cap 0, the hourly key has run out between the INCRBYFLOAT
\* and the EXPIRE of a dispatch: the EXPIRE finds no key, and by
\* C27_ZeroCapIsUnlimited TrackGlobalDistribution returns true in the next
\* step, with no hourly total left
HourlyKeyGoneBeforeExpire ==
    \E r \in Flows :
        /\ cfg.MaxTokensPerHour[STRK] > 0 /\ cfg.MaxTokensPerDay[STRK] = 0
        /\ flow[r].pc = "gd_exphour" /\ CurToken(flow[r]) = STRK
        /\ "hour" \in flow[r].inc
        /\ distHour[STRK] = Absent

\* the hourly challenge counter of an address has run out between the INCR
\* and the EXPIRE of IncrementChallengeRateLimit: the challenge being issued
\* is counted nowhere
ChallengeCountGoneBeforeExpire ==
    \E r \in Flows :
        /\ flow[r].pc = "cr_expire"
        /\ chRate[flow[r].ip] = Absent
        /\ Len(hist.issuedAt[flow[r].ip]) >= 2

\* the balance of token t that the transfers already submitted leave
Uncommitted(t) == balance[t] - pending[t] * cfg.DripAmount[t]

\* C28: every transfer that is submitted keeps the reserve rule against the
\* balance at the moment of its submission, the transfers submitted before
\* it counted: balance - amount >= balance * pct / 100, for every
\* interleaving of the requests.
C28_ReserveHoldsAtSubmission ==
    [][\A t \in Tokens :
          pending'[t] > pending[t] =>
              ~BelowReserve(Uncommitted(t), cfg.DripAmount[t],
                            cfg.MinBalanceProtectPct)]_vars

\* what one step adds to the hourly and to the daily total of token t
AddedHour(t) == GetInt(distHour[t])' - GetInt(distHour[t])

AddedDay(t) == GetInt(distDay[t])' - GetInt(distDay[t])

\* C29: in a sequential execution TrackGlobalDistribution either returns false
\* and has left the hourly and the daily total as they were, or returns true
\* and has raised the total of every enabled window by exactly the amount,
\* once; the totals of a disabled window and of the other token do not move.
C29_TrackAllOrNothing ==
    [][\A r \in Flows :
          \A t \in Tokens :
          ( /\ flow[r].pc \in InsideTrack /\ CurToken(flow[r]) = t
            /\ flow'[r] # flow[r] ) =>
              LET f == flow[r]
                  a == cfg.DripAmount[t]
                  hourOn == cfg.MaxTokensPerHour[t] > 0
                  dayOn == cfg.MaxTokensPerDay[t] > 0
                  hours == (IF "hour" \in f.inc THEN 1 ELSE 0)
                           + (IF AddedHour(t) = 0 THEN 0 ELSE 1)
                  days == (IF "day" \in f.inc THEN 1 ELSE 0)
                          + (IF AddedDay(t) = 0 THEN 0 ELSE 1)
              IN
              /\ AddedHour(t) \in {0, a} /\ AddedDay(t) \in {0, a}
              /\ \A u \in Tokens \ {t} : AddedHour(u) = 0 /\ AddedDay(u) = 0
              /\ flow'[r].pc \in InsideTrack =>
                    /\ ("hour" \in flow'[r].inc) = (hours = 1)
                    /\ ("day" \in flow'[r].inc) = (days = 1)
              /\ flow'[r].pc = "balance" =>
                    /\ hours = (IF hourOn THEN 1 ELSE 0)
                    /\ days = (IF dayOn THEN 1 ELSE 0)
              /\ flow'[r].pc \notin InsideTrack \cup {"balance"} =>
                    hours = 0 /\ days = 0]_vars

\* with both caps enabled, a request has been refused by the daily cap alone
\* (the hourly total had room for the amount), and both totals still stand at
\* the one drip admitted before
RefusedByDailyCapOnly ==
    /\ cfg.MaxTokensPerHour[STRK] > 0 /\ cfg.MaxTokensPerDay[STRK] > 0
    /\ GetInt(distHour[STRK]) = cfg.DripAmount[STRK]
    /\ GetInt(distDay[STRK]) = cfg.DripAmount[STRK]
    /\ GetInt(distHour[STRK]) + cfg.DripAmount[STRK] <= cfg.MaxTokensPerHour[STRK]
    /\ GetInt(distDay[STRK]) + cfg.DripAmount[STRK] > cfg.MaxTokensPerDay[STRK]
    /\ \E r \in Flows :
          /\ flow[r].pc = "done" /\ flow[r].token = STRK
          /\ flow[r].resp.status = 503
          /\ flow[r].resp.error = "Faucet has reached its distribution limit"

\* C30: when the PoW has been verified and DeleteChallenge fails, the request
\* is not rejected: whatever DEL answered, the request goes on to the
\* distribution guard (or, with both caps disabled, to the balance check before
\* the transfer), and a DEL that failed has left the challenge record as it
\* was.  A stored record goes away only by a DEL that succeeded or when its
\* TTL has run out.
C30_DeleteFailureNotFatal ==
    [][/\ \A r \in Flows :
             (flow[r].pc = "ch_del" /\ flow'[r] # flow[r]) =>
                 /\ flow'[r].pc \in {"gd_hour", "gd_day", "balance"}
                 /\ flow'[r].resp = NoResp
                 /\ \A c \in ChallengeIds :
                       \/ challenge'[c] = challenge[c]
                       \/ /\ c = flow[r].cid
                          /\ challenge'[c] = NoChallenge
                          /\ c \in hist'.consumed
       /\ \A c \in ChallengeIds :
             (Live(challenge[c]) /\ challenge'[c] # challenge[c]) =>
                 \/ \E r \in Flows : flow[r].pc = "ch_del" /\ flow[r].cid = c
                                     /\ c \in hist'.consumed
                 \/ now' > now /\ challenge[c].exp <= now']_vars

\* C30 witness: a request whose DEL failed has made its transfer, and the
\* challenge it redeemed is still stored.
C30_TransferredWithChallengeKept ==
    \E r \in Flows :
        /\ flow[r].pc = "incr"
        /\ Len(flow[r].txs) > 0
        /\ flow[r].cid \notin hist.consumed
        /\ Live(challenge[flow[r].cid])

\* the call of TransferTokens a request makes for token t
CallFor(t) == [token |-> t, amount |-> cfg.DripAmount[t]]

\* C31: a single-token request calls TransferTokens at most once, for its own
\* token with the configured drip amount, also after a transfer error; a
\* combined request calls it at most once per token, STRK before ETH, and
\* calls it for ETH only when the STRK transfer succeeded.  A call submits
\* one transfer of its token or, when it fails, none, and the balance moves by
\* the drip amount of a submitted transfer only.
C31_TransferAtMostOnce ==
    [][\A r \in Flows :
          LET f == flow'[r]
              sent == IF f.pc = "done" THEN f.resp.txs ELSE f.txs
          IN
          /\ ~f.both =>
                \/ f.calls = <<>>
                \/ f.token \in Tokens /\ f.calls = <<CallFor(f.token)>>
          /\ f.both =>
                /\ f.calls \in {<<>>, <<CallFor(STRK)>>, <<CallFor(STRK), CallFor(ETH)>>}
                /\ Len(f.calls) = 2 => Len(sent) >= 1 /\ sent[1] = STRK
          /\ \A t \in Tokens :
                /\ pending'[t] > pending[t] =>
                      /\ pending'[t] = pending[t] + 1
                      /\ \E q \in Flows :
                            /\ flow[q].pc = "transfer"
                            /\ flow'[q].calls = Append(flow[q].calls, CallFor(t))
                /\ balance'[t] # balance[t] =>
                      /\ balance'[t] = balance[t] - cfg.DripAmount[t]
                      /\ pending'[t] = pending[t] - 1]_vars

\* C31 witness: a combined request whose STRK transfer failed has answered
\* 500 after that one call, without a call for ETH.
C31_NoCallAfterFailure ==
    \E r \in Flows :
        /\ flow[r].pc = "done"
        /\ flow[r].resp.txs = <<>>
        /\ flow[r].resp.status = 500
        /\ flow[r].both
        /\ flow[r].calls = <<CallFor(STRK)>>

\* C32: a single-token request that answers success has committed its
\* bookkeeping: when the response is sent, the throttle marker of the token is
\* set for the IP, and the IP has a daily counter of at least 1 or is in
\* cooldown, also when a write to the store failed after the transfer.
C32_SuccessHasCommitted ==
    [][\A r \in Flows : \A ip \in IPs : \A t \in Tokens :
          ( /\ flow[r].pc = "th_set" /\ ~flow[r].both
            /\ flow[r].ip = ip /\ flow[r].token = t
            /\ flow'[r].pc = "done" /\ flow'[r].resp.status = 200 ) =>
              /\ Live(throttle[ip][t])'
              /\ Live(cooldown[ip])' \/ GetInt(counter[ip])' >= 1]_vars

\* the pipeline of IncrementIPDailyLimit that follows an INCRBY to the maximum
\* is under way for ip
ReachedMaximum(ip) ==
    \E r \in Flows : flow[r].ip = ip /\ flow[r].pc \in {"cd_set", "cd_del"}

\* C33: in a sequential execution the stored daily counter of an IP, when it
\* exists, is between 1 and MaxRequestsPerDayIP - 1; the one exception is
\* inside IncrementIPDailyLimit, between the INCRBY that reached the maximum
\* and the DEL that follows it.  The counter is therefore never read as
\* negative or as >= the maximum, and a request is admitted only with
\* used + cost <= maximum.
C33_CounterBelowMaximum ==
    /\ \A ip \in IPs :
          Live(counter[ip]) =>
              IF ReachedMaximum(ip)
              THEN counter[ip].val = cfg.MaxRequestsPerDayIP
              ELSE counter[ip].val \in 1 .. cfg.MaxRequestsPerDayIP - 1
    /\ \A r \in Flows :
          GateOf(flow[r].pc) \in {"daily", "throttle"} =>
              /\ GetInt(counter[flow[r].ip]) \in 0 .. cfg.MaxRequestsPerDayIP - 1
              /\ GateOf(flow[r].pc) = "throttle" =>
                    flow[r].count + RequestCost(flow[r].token) <= cfg.MaxRequestsPerDayIP

\* C33 witness: the increment of a request that has answered success reached
\* the maximum: the IP is in cooldown and its counter is gone.
C33_CounterClearedAtMaximum ==
    \E ip \in IPs :
        /\ Live(cooldown[ip]) /\ ~Live(counter[ip])
        /\ hist.submitted[ip] = cfg.MaxRequestsPerDayIP
        /\ \E r \in Flows : flow[r].pc = "done" /\ flow[r].resp.status = 200

\* GetIPDailyQuota says that a request of cost c fits: no cooldown and
\* remaining >= c
QuotaAdmits(ip, c) ==
    LET q == GetIPDailyQuota(ip, TRUE, TRUE) IN
    q.cooldownEnd = 0 /\ q.remaining >= c

\* the agreement of the quota read and the gate on one state of the store
QuotaAgreesWithGate ==
    \A ip \in IPs :
        /\ GetIPDailyQuota(ip, TRUE, TRUE).remaining \in 0 .. cfg.MaxRequestsPerDayIP
        /\ \A c \in {1, 2} : QuotaAdmits(ip, c) <=> DailyLimitAdmits(ip, c)

\* C34: GetIPDailyQuota reports 0 <= remaining <= max, and it reports no
\* cooldown and remaining >= c exactly when the daily-limit gate admits a
\* request of cost c: on every state of the store, and for every decision
\* the gate of RequestTokens takes while it serves a request.
C34_QuotaAgreesWithGate ==
    [][/\ QuotaAgreesWithGate
       /\ \A r \in Flows : \A ip \in IPs :
             (flow[r].ip = ip /\ flow'[r] # flow[r]) =>
                 LET c == RequestCost(flow[r].token) IN
                 /\ (flow[r].pc = "dl_cooldown" /\ flow'[r].pc = "done") =>
                       ~QuotaAdmits(ip, c)
                 /\ (flow[r].pc = "dl_counter" /\ flow'[r].pc = "dl_quota") =>
                       ~QuotaAdmits(ip, c)
                 /\ (flow[r].pc = "dl_counter" /\ flow'[r].pc = "th_exists") =>
                       QuotaAdmits(ip, c)]_vars

\* C34 witness: a request has been refused because of the cooldown, and in
\* that state the quota read reports the cooldown with nothing remaining.
C34_BothRefuseInCooldown ==
    \E ip \in IPs :
        /\ GetIPDailyQuota(ip, TRUE, TRUE).cooldownEnd # 0
        /\ GetIPDailyQuota(ip, TRUE, TRUE).remaining = 0
        /\ ~DailyLimitAdmits(ip, 1)
        /\ ~Live(counter[ip])
        /\ \E r \in Flows :
              /\ flow[r].pc = "done" /\ flow[r].resp.status = 429
              /\ flow[r].resp.error = "Daily limit reached. In 24-hour cooldown"

\* the cooldown ip entered has run its 24 hours, and nothing has been sent to
\* ip since it was entered
CooldownOver(ip) ==
    /\ hist.cooldownAt[ip] # Persist
    /\ now >= hist.cooldownAt[ip] + Day
    /\ \A t \in Tokens : hist.lastXfer[ip][t] <= hist.cooldownAt[ip]

\* C35: once 24 hours have passed since an IP entered cooldown, the next
\* request of the IP is not stopped by the cooldown check and passes the
\* daily-limit gate with used = 0.
C35_CooldownRestoresQuota ==
    [][\A r \in Flows : \A ip \in IPs :
          (flow[r].ip = ip /\ CooldownOver(ip) /\ flow'[r] # flow[r]) =>
              /\ flow[r].pc = "dl_cooldown" => flow'[r].pc \in {"dl_cooldel", "dl_counter"}
              /\ flow[r].pc = "dl_cooldel" => flow'[r].pc = "dl_counter"
              /\ flow[r].pc = "dl_counter" =>
                    flow'[r].pc = "th_exists" /\ flow'[r].count = 0]_vars

\* C35 witness: a day after the cooldown was entered a request of the IP has
\* passed the daily-limit gate with used = 0 and has been sent its tokens.
C35_AdmittedAfterCooldown ==
    \E r \in Flows : \E ip \in IPs :
        /\ flow[r].ip = ip /\ flow[r].pc = "incr" /\ flow[r].count = 0
        /\ hist.cooldownAt[ip] # Persist
        /\ now = hist.cooldownAt[ip] + Day
        /\ ~Live(cooldown[ip]) /\ ~Live(counter[ip])

\* C36: one hour after the last successful dispatch of token t to an IP the
\* throttle gate admits t for that IP; a marker that is set runs out exactly
\* one hour after that dispatch, and the throttle check of a request, refused
\* or not, leaves every marker as it is.
C36_ThrottleEndsAfterAnHour ==
    [][/\ \A ip \in IPs : \A t \in Tokens :
             Live(throttle[ip][t]) =>
                 /\ hist.lastXfer[ip][t] # Persist
                 /\ throttle[ip][t].exp = hist.lastXfer[ip][t] + Hour
       /\ \A r \in Flows :
             (GateOf(flow[r].pc) = "throttle" /\ flow'[r] # flow[r]) =>
                 throttle' = throttle
       /\ \A r \in Flows : \A ip \in IPs : \A t \in Tokens :
             ( /\ flow[r].pc = "th_exists" /\ flow'[r] # flow[r]
               /\ flow[r].ip = ip /\ flow[r].token = t
               /\ hist.lastXfer[ip][t] # Persist
               /\ now >= hist.lastXfer[ip][t] + Hour ) =>
                 flow'[r].pc = "ch_get"]_vars

\* C36 witness: an hour after tokens were sent to it, an IP asks for the same
\* token again and has passed the throttle gate.
C36_AdmittedAfterAnHour ==
    \E r \in Flows : \E ip \in IPs :
        /\ flow[r].pc = "ch_get" /\ flow[r].ip = ip /\ flow[r].token = STRK
        /\ hist.lastXfer[ip][STRK] # Persist
        /\ now = hist.lastXfer[ip][STRK] + Hour
        /\ throttle[ip][STRK] = Absent

\* the positions of a request after its challenge was deleted and before it
\* has sent anything
BeforeSending ==
    {"gd_hour", "gd_day", "gd_inchour", "gd_exphour", "gd_incday", "gd_expday", "balance",
     "transfer"}

\* C37: a stored challenge is deleted only by a request that has passed the
\* daily-limit gate, the throttle gate and the PoW verification, and before
\* the distribution guard runs.  A request refused by a rate limit has left
\* every challenge record as it was; a request refused by the guard or by the
\* reserve rule, or failed by the transfer, has consumed its challenge.
C37_DeletedAfterRateLimitsBeforeGuard ==
    [][/\ \A c \in ChallengeIds :
             (Live(challenge[c]) /\ challenge'[c] = NoChallenge /\ now' = now) =>
                 \E r \in Flows :
                     /\ flow[r].pc = "ch_del" /\ flow[r].cid = c
                     /\ flow[r].trace = <<"daily", "throttle">>
                     /\ hist.powPass[c] >= 1
                     /\ flow'[r].pc \in {"gd_hour", "gd_day", "balance"}
       /\ \A r \in Flows :
             (flow[r].pc \notin {"idle", "done", "ch_del"} /\ flow'[r] # flow[r]) =>
                 \A c \in ChallengeIds : c # nextId => challenge'[c] = challenge[c]
       /\ \A r \in Flows :
             ( /\ GateOf(flow[r].pc) \in {"daily", "throttle"}
               /\ flow'[r].pc = "done" ) =>
                 /\ "pow" \notin {flow'[r].trace[i] : i \in DOMAIN flow'[r].trace}
                 /\ flow[r].cid \notin hist'.consumed \ hist.consumed
       /\ \A r \in Flows :
             ( /\ flow[r].pc \in BeforeSending /\ ~flow[r].both
               /\ flow'[r].pc = "done" ) =>
                 /\ flow[r].cid \in hist.consumed
                 /\ challenge'[flow[r].cid] = NoChallenge]_vars

\* C37 witness: a request has been refused by the distribution guard or the
\* reserve rule, or its transfer has failed, and the challenge it redeemed is
\* gone from the store although nothing was sent for it.
C37_ConsumedWithoutTransfer ==
    /\ \E r \in Flows :
          /\ flow[r].pc = "done" /\ ~flow[r].both
          /\ flow[r].resp.status \in {500, 503}
          /\ flow[r].trace # <<>> /\ flow[r].trace[Len(flow[r].trace)] \in {"pow", "cap", "reserve"}
    /\ \E c \in hist.consumed :
          hist.powPass[c] = 1 /\ hist.spent[c] = 0 /\ challenge[c] = NoChallenge

\* the calls CliCalls of kind op, in their order
RECURSIVE CallsOf(_, _)
CallsOf(op, calls) ==
    IF calls = <<>> THEN <<>>
    ELSE IF Head(calls).op = op THEN <<Head(calls)>> \o CallsOf(op, Tail(calls))
    ELSE CallsOf(op, Tail(calls))

\* C38: a run of the CLI with --both (or --token both) sends single-token
\* requests only: STRK first, then ETH, and ETH only after the STRK request
\* succeeded; every request carries the challenge fetched just before it, a
\* different one for each request; each single request fetches its challenge
\* with at most MaxRetries calls, a further call only after an answer 502 or
\* 503, and solves the one it obtained; no request of any run carries the
\* token BOTH.
C38_BothIsTwoSingleRequests ==
    LET faucet == CallsOf("faucet", cli.sent)
        fetch == CallsOf("challenge", cli.sent)
        singles == IF cli.both THEN 2 ELSE 1
    IN
    /\ \A i \in DOMAIN faucet : faucet[i].token \in Tokens
    /\ cli.both =>
          /\ Len(faucet) <= 2
          /\ \A i \in DOMAIN faucet : faucet[i].token = BothTokens[i]
          /\ Len(faucet) = 2 => faucet[1].ok
    /\ ~cli.both => Len(faucet) <= 1
    /\ \A i \in DOMAIN cli.sent :
          cli.sent[i].op = "faucet" =>
              /\ i > 1 /\ cli.sent[i - 1].op = "challenge" /\ cli.sent[i - 1].ok
              /\ cli.sent[i].cid = cli.sent[i - 1].cid
    /\ \A i, j \in DOMAIN faucet : i # j => faucet[i].cid # faucet[j].cid
    /\ \A i \in DOMAIN cli.sent :
          (cli.sent[i].op = "challenge" /\ i < Len(cli.sent)) =>
              IF cli.sent[i].ok THEN cli.sent[i + 1].op = "faucet"
              ELSE /\ cli.sent[i].answer = "waking"
                   /\ cli.sent[i + 1].op = "challenge"
    /\ \A i \in DOMAIN cli.sent :
          i + MaxRetries <= Len(cli.sent) =>
              \E k \in i .. i + MaxRetries : cli.sent[k].op = "faucet"
    /\ Cardinality({i \in DOMAIN fetch : fetch[i].ok}) <= singles
    /\ Len(fetch) <= MaxRetries * singles

\* C38 witness: a run with --both has ended after a STRK request that failed,
\* without a call for ETH.
C38_StrkFailedEthNotSent ==
    /\ cli.pc = "exit" /\ cli.both /\ cli.err
    /\ Len(cli.sent) = 2
    /\ cli.sent[2] \in {CliCall("faucet", STRK, 1, n, a) :
                            n \in Nonces, a \in CliAnswers \ {"ok"}}

\* a run with --both has fetched each of its two challenges at the third
\* attempt: six challenge calls, two requests
SixChallengeCalls ==
    /\ cli.pc = "exit" /\ cli.both /\ ~cli.err
    /\ Len(CallsOf("challenge", cli.sent)) = 2 * MaxRetries
    /\ Len(CallsOf("faucet", cli.sent)) = 2

=============================================================================
